---- MODULE Spec2Model ----
(***************************************************************************)
(* Model of the build engine of evo-cloud/repos: the task-graph builder    *)
(* (BuildTaskGraph, TaskGraph.Prepare, TaskGraph.Complete), the dispatcher *)
(* (Dispatcher.Run: one coordinator, numWorkers workers, three bounded     *)
(* channels), the skippability gate of execution.executeTask and the       *)
(* persisted TaskResult / cache state that survive across builds.          *)
(***************************************************************************)
EXTENDS Integers, Sequences, FiniteSets, TLC

(***************************************************************************)
(* Universe of the model.                                                  *)
(***************************************************************************)
\* global target names of the repository ("project:local")
Targets == {"a", "b", "c"}

\* model value for "no value" (nil pointer, missing file)
None == "none"

RECURSIVE SetToSeq(_)
\* some enumeration of a set: Go's map iteration order, fixed per set
SetToSeq(S) ==
  IF S = {} THEN <<>>
  ELSE LET x == CHOOSE y \in S : TRUE IN <<x>> \o SetToSeq(S \ {x})

Range(s) == {s[i] : i \in 1..Len(s)}

RECURSIVE Perms(_)
\* all orders in which Go may iterate over a map with key set S
Perms(S) ==
  IF S = {} THEN {<<>>}
  ELSE UNION {{<<x>> \o p : p \in Perms(S \ {x})} : x \in S}

(***************************************************************************)
(* Task graph: BuildTaskGraph and TaskGraph.Prepare.                       *)
(***************************************************************************)
RECURSIVE Resolve(_, _, _)
\* the resolveList loop of BuildTaskGraph: tasks is g.Tasks, todo the
\* tasks whose dependency lists are not resolved yet
Resolve(deps, tasks, todo) ==
  IF todo = {} THEN tasks
  ELSE LET task == CHOOSE t \in todo : TRUE
           new == deps[task] \ tasks
       IN Resolve(deps, tasks \cup new, (todo \ {task}) \cup new)

\* g.Tasks of the graph built for the required targets
BuildTaskGraph(deps, required) == Resolve(deps, required, required)

\* task.DepOn
DepOnOf(deps, tasks, t) == deps[t] \cap tasks

\* task.DepBy
DepByOf(deps, tasks, t) == {u \in tasks : t \in deps[u]}

\* a faulty release test of Prepare: strictly more completed dependencies
\* than dependencies
PrepareReleasedStrict(deps, tasks, depDone, task) ==
  {d \in DepByOf(deps, tasks, task) :
     Cardinality(depDone[d] \cup {task}) > Cardinality(DepOnOf(deps, tasks, d))}

\* the dependents Prepare releases when task is taken off its working list:
\* those whose DepDone, with task added, reached the size of their DepOn
PrepareReleased(deps, tasks, depDone, task) ==
  {d \in DepByOf(deps, tasks, task) :
     Cardinality(depDone[d] \cup {task}) >= Cardinality(DepOnOf(deps, tasks, d))}

RECURSIVE PrepareLoop(_, _, _, _, _)
\* the second loop of Prepare: pop the front of the working list, record
\* it in DepDone of every dependent, release the dependents that are
\* complete (their DepDone is reset, they leave notReady)
PrepareLoop(deps, tasks, ready, depDone, notReady) ==
  IF ready = <<>> THEN notReady
  ELSE LET task == Head(ready)
           by == DepByOf(deps, tasks, task)
           released == PrepareReleased(deps, tasks, depDone, task)
           depDone2 == [d \in tasks |->
                          IF d \in released THEN {}
                          ELSE IF d \in by THEN depDone[d] \cup {task}
                          ELSE depDone[d]]
       IN PrepareLoop(deps, tasks, Tail(ready) \o SetToSeq(released),
                      depDone2, notReady \ released)

\* the tasks Prepare puts on the ready list: those without dependencies
PrepareReady(deps, tasks) == {t \in tasks : DepOnOf(deps, tasks, t) = {}}

\* a faulty Prepare: a released task is not deleted from notReady
PrepareNoDelete(deps, tasks) ==
  tasks \ PrepareReady(deps, tasks)

\* the set Prepare returns: the tasks that were never released
Prepare(deps, tasks) ==
  PrepareLoop(deps, tasks, SetToSeq(PrepareReady(deps, tasks)),
              [t \in tasks |-> {}], tasks \ PrepareReady(deps, tasks))

\* Repo.Plan: the graph, and the cyclic-dependencies error when Prepare
\* returns a non-empty set
Plan(deps, required) ==
  LET tasks == BuildTaskGraph(deps, required)
      cyclic == Prepare(deps, tasks)
  IN [err |-> IF cyclic # {} THEN "cyclic" ELSE "nil",
      tasks |-> tasks, cyclic |-> cyclic]

(***************************************************************************)
(* Dispatcher state.                                                       *)
(***************************************************************************)
\* Dispatcher.NumWorkers: size of the worker pool and of the three channels
NumWorkers == 2
\* number of build invocations explored
MaxBuilds == 2
\* largest value of the clock read by time.Now()
MaxTime == 2
\* largest modification time of a declared input
MaxMTime == 1

Workers == 1..NumWorkers

VARIABLES
  deps,          \* Target.meta.Deps of every target
  tool,          \* kind of executor of every target
  always,        \* Target.meta.Always
  resultFile,    \* <cache>/<task>.result on disk, ZeroResult when missing
  stateFile,     \* <cache>/<task>.state on disk, NoState when missing
  srcMTime,      \* modification time of the declared input of every target
  now,           \* last value returned by time.Now()
  build,         \* number of builds started
  pc,            \* position of the coordinator (Dispatcher.Run / execution.run)
  tasks,         \* g.Tasks
  NoSkip,        \* Task.NoSkip
  State,         \* Task.State
  DepDone,       \* Task.DepDone
  Err,           \* Task.Err
  Outputs,       \* Task.Outputs
  StartTime,     \* Task.StartTime
  EndTime,       \* Task.EndTime
  ReadyList,     \* g.ReadyList
  CompleteList,  \* g.CompleteList
  runningCount,  \* execution.runningCount
  requestCh,     \* execution.requestCh
  resultCh,      \* execution.resultCh
  eventCh,       \* execution.eventCh
  err,           \* the error Run returns
  ctxDone,       \* the caller's context is cancelled
  workerCtxDone, \* workerCtx is cancelled and requestCh closed
  wpc,           \* position of every worker in runWorker
  wtask,         \* the task a worker holds
  handled,       \* events delivered to the EventHandler, in order
  Skippable,     \* ToolExecContext.Skippable handed to the executor
  crashed,       \* the process died of a nil dereference
  required,      \* the targets named on the build command line
  touched,       \* a declared input changed since the last build started
  prev,          \* what the previous build left: outcome and OutputFiles
  plan,          \* input and result of a call of Repo.Plan
  files,         \* the files of the project and of its output directory
  cacheFile,     \* <cache>/<task>.state of the task the executor runs for
  fcache,        \* the FilesCache of the executor: current and saved
  reporter,      \* CacheReporter.records of an external tool run
  xkind,         \* the tool of the task: "exec", "files" or "ext"
  xskippable,    \* ToolExecContext.Skippable of the run
  xpc,           \* position of the executor in Execute
  verified,      \* what the last FilesCache.Verify of the run returned
  xoutputs,      \* Task.Outputs as the dependents see it
  xresult,       \* how the executor returned
  ftime,         \* the clock the file system stamps files with
  execs,         \* number of executor runs started
  nlines,        \* number of cache calls or control lines of the run
  persisted,     \* the content the last successful Persist wrote
  changed,       \* paths changed on disk since the last successful Persist
  dirty,         \* inputs changed since the persisting run read their stat
  runDirty,      \* paths changed since this run read their stat
  reply,         \* the last reply to a line V of the external tool
  xexit,         \* the exit status of the external tool
  replayed,      \* the content of the cache the records were replayed onto
  regMeta,       \* the register-tool name in the meta of every target
  loadState,     \* what loadProject made of the project file
  regTools,      \* Dispatcher.registeredTools: the task that owns a name
  toolsLock,     \* the task whose worker holds Dispatcher.toolsLock
  rpc,           \* position of the worker of every task in executeTask
  rout,          \* what the executor of every task returned
  rerr,          \* what executeTask returned for every task
  resolve,       \* input and result of a call of Repo.ResolveTargets
  graph,         \* input and result of a call of BuildTaskGraph
  persistErr     \* what the last cache.Persist of PersistCacheOrLog returned

regVars == <<regMeta, loadState, regTools, toolsLock, rpc, rout, rerr>>

callVars == <<resolve, graph, persistErr>>

toolVars == <<files, cacheFile, fcache, reporter, xkind, xskippable, xpc,
              verified, xoutputs, xresult, ftime, execs, nlines, persisted,
              changed, dirty, runDirty, reply, xexit, replayed, regVars,
              callVars>>

vars == <<deps, tool, always, resultFile, stateFile, srcMTime, now,
          build, pc, tasks, NoSkip, State, DepDone, Err, Outputs, StartTime,
          EndTime, ReadyList, CompleteList, runningCount, requestCh, resultCh,
          eventCh, err, ctxDone, workerCtxDone, wpc, wtask, handled, Skippable,
          crashed, required, touched, prev, plan, toolVars>>

repoVars == <<deps, tool, always>>
diskVars == <<resultFile, stateFile, srcMTime>>
taskVars == <<State, DepDone, Err, Outputs, StartTime, EndTime>>
chanVars == <<requestCh, resultCh, eventCh>>
workerVars == <<wpc, wtask>>

(***************************************************************************)
(* Values.                                                                 *)
(***************************************************************************)
\* executors: a target without rule, a built-in tool following the executor
\* contract, an external tool following the control protocol, and an
\* external tool that sends V and then X whatever the answer
Tools == {"dummy", "builtin", "ext", "extVX"}

\* TaskResult{} as loadTaskResult returns it when the file cannot be read
ZeroResult ==
  [SuccessBuildStartTime |-> 0, SuccessBuildEndTime |-> 0,
   StartTime |-> 0, EndTime |-> 0, Skipped |-> FALSE, Err |-> None]

\* the OutputFiles record the executor of target t declares
DeclaredOutputs(t) == [Primary |-> t]

\* Task.Outputs == nil
NilOutputs == [Primary |-> None]

\* no state file on disk
NoState == [Inputs |-> -1, TaskOutputs |-> NilOutputs]

\* a repository: dependency lists, executors and always flags of its
\* targets; a target with tool "absent" is not defined in the repository
Repo(d, k, al) == [deps |-> d, tool |-> k, always |-> al]

NoDeps == [t \in Targets |-> {}]
NoAlways == [t \in Targets |-> FALSE]

\* the repositories explored across builds: b depends on a, with every
\* executor; an always target; c above a dummy aggregator above a
Repos ==
  { Repo([NoDeps EXCEPT !["b"] = {"a"}],
         [a |-> ka, b |-> kb, c |-> "absent"], NoAlways) :
      ka \in {"builtin"}, kb \in {"builtin", "ext", "extVX", "dummy"} }
  \cup
  { Repo([NoDeps EXCEPT !["b"] = {"a"}],
         [a |-> "builtin", b |-> "builtin", c |-> "absent"],
         [NoAlways EXCEPT !["a"] = TRUE]),
    Repo([NoDeps EXCEPT !["b"] = {"a"}, !["c"] = {"b"}],
         [a |-> "builtin", b |-> "dummy", c |-> "builtin"], NoAlways) }

\* the targets a repository defines
Defined(k) == {t \in Targets : k[t] # "absent"}

\* what a build of everything at clock 1 leaves on disk for target t
BuiltResult(k, t) ==
  IF k[t] = "absent" THEN ZeroResult
  ELSE [ZeroResult EXCEPT !.SuccessBuildStartTime = 1,
                          !.SuccessBuildEndTime = 1,
                          !.StartTime = 1, !.EndTime = 1]

BuiltState(k, t) ==
  IF k[t] \in {"absent", "dummy"} THEN NoState
  ELSE [Inputs |-> 0, TaskOutputs |-> DeclaredOutputs(t)]

\* the disks a build starts from: a fresh checkout, or the files left by an
\* earlier successful build of every target
Disks(k) ==
  { [resultFile |-> [t \in Targets |-> ZeroResult],
     stateFile |-> [t \in Targets |-> NoState]],
    [resultFile |-> [t \in Targets |-> BuiltResult(k, t)],
     stateFile |-> [t \in Targets |-> BuiltState(k, t)]] }

\* the plan specification is idle in the dispatcher specification
NoResult == [err |-> "uncalled", tasks |-> {}, cyclic |-> {}]

NoPlan == [deps |-> [t \in Targets |-> {}], required |-> {}, result |-> NoResult]

\* Repo.ResolveTargets is not called
NoResolve == [called |-> FALSE]

\* BuildTaskGraph is not called
NoGraph == [called |-> FALSE]

(***************************************************************************)
(* FilesCache: the files an executor declares and the state it saves.      *)
(***************************************************************************)
MaxFTime == 2
MaxExecs == 2
MaxLines == 3

\* source files, outputs under the output directory, generated sources
SrcPaths == {"s1"}
OutPaths == {"o1", "o2"}
GenPaths == {"g1"}
Paths == SrcPaths \cup OutPaths \cup GenPaths
OpaqueValues == {"x", "y"}

\* os.Stat of a path: a missing file, or a file or directory and its time
NoFile == [Exists |-> FALSE, Dir |-> FALSE, MTime |-> 0]
FileInfo(dir, mtime) == [Exists |-> TRUE, Dir |-> dir, MTime |-> mtime]

\* the zero time.Time of an entry that was declared and not refreshed
ZeroTime == -1

fileEntry(dir, mtime) == [Dir |-> dir, MTime |-> mtime]

\* fileEntry.String, the text MarshalJSON writes: "D" or "F" and the time
MarshalEntry(e) == <<IF e.Dir THEN "D" ELSE "F", e.MTime>>

\* fileEntry.UnmarshalJSON
UnmarshalEntry(s) == [Dir |-> s[1] = "D", MTime |-> s[2]]

\* a relative path as the tool gives it: a trailing separator marks a
\* directory
RelPath(p, dir) == [p |-> p, dir |-> dir]
NoPath == [p |-> "", dir |-> FALSE]

\* the declarations of outputs the tools of the model make
OutputDecls == {[key |-> "", rel |-> RelPath("o1", FALSE)],
                [key |-> "k", rel |-> RelPath("o2", FALSE)]}

EmptyEntries == [fn \in {} |-> fileEntry(FALSE, ZeroTime)]
EmptyExtra == [k \in {} |-> NoPath]

\* m[k] = v
Put(m, k, v) == [x \in DOMAIN m \cup {k} |-> IF x = k THEN v ELSE m[x]]

\* OutputFiles
OutputFiles(primary, extra, generated) ==
  [Primary |-> primary, Extra |-> extra, GeneratedFiles |-> generated]

\* Task.Outputs is nil
NilOutputFiles == [Nil |-> TRUE]

\* fileCacheContent as NewFilesCache makes it
NewContent ==
  [Inputs |-> EmptyEntries, Outputs |-> EmptyEntries,
   Generates |-> EmptyEntries, Opaque |-> <<>>,
   TaskOutputs |-> OutputFiles(NoPath, EmptyExtra, <<>>)]

\* a nil *fileCacheContent, and a state file that does not exist
NilContent == [Nil |-> TRUE]

NewFilesCache == [current |-> NewContent, saved |-> NilContent]

\* json.Marshal of the content: every entry in the text of its String
MarshalContent(c) ==
  [Inputs |-> [fn \in DOMAIN c.Inputs |-> MarshalEntry(c.Inputs[fn])],
   Outputs |-> [fn \in DOMAIN c.Outputs |-> MarshalEntry(c.Outputs[fn])],
   Generates |-> [fn \in DOMAIN c.Generates |-> MarshalEntry(c.Generates[fn])],
   Opaque |-> c.Opaque,
   TaskOutputs |-> c.TaskOutputs]

\* loadStateFrom: nil when the file cannot be read, else json.Unmarshal
loadStateFrom(file) ==
  IF file = NilContent THEN NilContent
  ELSE [Inputs |-> [fn \in DOMAIN file.Inputs |-> UnmarshalEntry(file.Inputs[fn])],
        Outputs |-> [fn \in DOMAIN file.Outputs |-> UnmarshalEntry(file.Outputs[fn])],
        Generates |-> [fn \in DOMAIN file.Generates |->
                         UnmarshalEntry(file.Generates[fn])],
        Opaque |-> file.Opaque,
        TaskOutputs |-> file.TaskOutputs]

\* FilesCache.AddInput of one path that exists: the entry holds its stat
AddInput(c, disk, p) ==
  [c EXCEPT !.Inputs = Put(c.Inputs, p, fileEntry(disk[p].Dir, disk[p].MTime))]

\* FilesCache.AddOutput
AddOutput(c, key, rel) ==
  [c EXCEPT !.Outputs = Put(c.Outputs, rel.p, fileEntry(rel.dir, ZeroTime)),
            !.TaskOutputs =
               IF key = ""
               THEN [c.TaskOutputs EXCEPT !.Primary = rel]
               ELSE [c.TaskOutputs EXCEPT !.Extra = Put(c.TaskOutputs.Extra, key, rel)]]

\* FilesCache.AddGenerated
AddGenerated(c, rel) ==
  [c EXCEPT !.Generates = Put(c.Generates, rel.p, fileEntry(rel.dir, ZeroTime)),
            !.TaskOutputs.GeneratedFiles = Append(c.TaskOutputs.GeneratedFiles, rel)]

\* FilesCache.AddOpaque of one value
AddOpaque(c, val) == [c EXCEPT !.Opaque = Append(c.Opaque, val)]

compareFileEntryMaps(m1, m2) ==
  /\ Cardinality(DOMAIN m1) = Cardinality(DOMAIN m2)
  /\ \A fn \in DOMAIN m1 :
       /\ fn \in DOMAIN m2
       /\ m1[fn].Dir = m2[fn].Dir
       /\ m1[fn].MTime = m2[fn].MTime

compareFileEntryKeys(m1, m2) ==
  /\ Cardinality(DOMAIN m1) = Cardinality(DOMAIN m2)
  /\ \A fn \in DOMAIN m1 : fn \in DOMAIN m2

compareExtraTaskOutputs(m1, m2) ==
  /\ Cardinality(DOMAIN m1) = Cardinality(DOMAIN m2)
  /\ \A key \in DOMAIN m1 : key \in DOMAIN m2

\* the opaque lists have one length and are equal at every position
SameOpaque(o1, o2) ==
  /\ Len(o1) = Len(o2)
  /\ \A n \in 1..Len(o1) : o2[n] = o1[n]

\* refreshFileEntries succeeds: every entry is on disk with its kind
CanRefresh(disk, entries) ==
  \A fn \in DOMAIN entries : disk[fn].Exists /\ entries[fn].Dir = disk[fn].Dir

refreshFileEntries(disk, entries) ==
  [fn \in DOMAIN entries |-> fileEntry(entries[fn].Dir, disk[fn].MTime)]

\* checkUpToDate returns nil
checkUpToDate(disk, current, saved) ==
  \A fn \in DOMAIN current :
    /\ disk[fn].Exists
    /\ fn \in DOMAIN saved
    /\ saved[fn].Dir = disk[fn].Dir
    /\ saved[fn].MTime = disk[fn].MTime

\* a Verify that does not look at the disk
VerifyWithoutDisk(saved, current, disk) ==
  /\ compareFileEntryKeys(saved.Outputs, current.Outputs)
  /\ compareFileEntryKeys(saved.Generates, current.Generates)
  /\ compareFileEntryMaps(saved.Inputs, current.Inputs)
  /\ compareExtraTaskOutputs(saved.TaskOutputs.Extra, current.TaskOutputs.Extra)
  /\ SameOpaque(saved.Opaque, current.Opaque)

\* the comparisons of FilesCache.Verify once a saved state is loaded; a
\* primary output that differs is logged and nothing else
VerifyLoaded(saved, current, disk) ==
  /\ compareFileEntryKeys(saved.Outputs, current.Outputs)
  /\ compareFileEntryKeys(saved.Generates, current.Generates)
  /\ compareFileEntryMaps(saved.Inputs, current.Inputs)
  /\ compareExtraTaskOutputs(saved.TaskOutputs.Extra, current.TaskOutputs.Extra)
  /\ SameOpaque(saved.Opaque, current.Opaque)
  /\ checkUpToDate(disk, current.Outputs, saved.Outputs)
  /\ checkUpToDate(disk, current.Generates, saved.Generates)

\* FilesCache.Verify: the saved state the cache ends with and the answer
FilesCacheVerify(s, disk, file) ==
  LET saved == IF s.saved = NilContent THEN loadStateFrom(file) ELSE s.saved
  IN [saved |-> saved,
      ok |-> saved # NilContent /\ VerifyLoaded(saved, s.current, disk)]

\* a Persist that stats the outputs and not the generated sources
CanPersistOutputs(s, disk) == CanRefresh(disk, s.current.Outputs)

\* FilesCache.Persist succeeds
CanPersist(s, disk) ==
  CanRefresh(disk, s.current.Outputs) /\ CanRefresh(disk, s.current.Generates)

\* a Persist that writes the entries as they were declared
RefreshedAtAdd(s, disk) == s.current

\* the current content after the two refreshFileEntries of Persist
Refreshed(s, disk) ==
  [s.current EXCEPT !.Outputs = refreshFileEntries(disk, s.current.Outputs),
                    !.Generates = refreshFileEntries(disk, s.current.Generates)]

\* the outputs declared in this run in the place of the saved ones
CurrentTaskOutputs(s) == s.current.TaskOutputs

\* FilesCache.SavedTaskOutputs
SavedTaskOutputs(s) ==
  IF s.saved # NilContent THEN s.saved.TaskOutputs ELSE NilOutputFiles

\* the tools registered by init() of the tool packages
BuiltinNames == {"exec"}

\* what register-tool.name may be in a project file: absent, empty, the
\* name of a built-in tool, or a new name
RegNames == {None, "", "exec", "gen", "lint"}

NoTools == [n \in {} |-> None]

\* no project is loaded and the dispatcher has registered nothing
InitReg ==
  /\ regMeta = [t \in Targets |-> None]
  /\ loadState = "unloaded"
  /\ regTools = NoTools
  /\ toolsLock = None
  /\ rpc = [t \in Targets |-> "idle"]
  /\ rout = [t \in Targets |-> None]
  /\ rerr = [t \in Targets |-> None]

\* no executor runs
InitTool ==
  /\ files = [p \in Paths |-> IF p \in SrcPaths THEN FileInfo(FALSE, 0) ELSE NoFile]
  /\ cacheFile = NilContent
  /\ fcache = NewFilesCache
  /\ reporter = <<>>
  /\ xkind = None
  /\ xskippable = FALSE
  /\ xpc = "idle"
  /\ verified = None
  /\ xoutputs = NilOutputFiles
  /\ xresult = None
  /\ ftime = 0
  /\ execs = 0
  /\ nlines = 0
  /\ persisted = NilContent
  /\ changed = {}
  /\ dirty = {}
  /\ runDirty = {}
  /\ reply = None
  /\ xexit = None
  /\ replayed = NilContent
  /\ InitReg

\* no previous build
NoPrev == [ok |-> FALSE, required |-> {}, Outputs |-> [t \in Targets |-> NilOutputs],
           persisted |-> FALSE, changed |-> FALSE]

\* the state before the first build of repository r on disk d
InitWith(r, d) ==
  /\ deps = r.deps /\ tool = r.tool /\ always = r.always
  /\ resultFile = d.resultFile
  /\ stateFile = d.stateFile
  /\ srcMTime = [t \in Targets |-> 0]
  /\ now = 1
  /\ build = 0
  /\ pc = "idle"
  /\ tasks = {}
  /\ NoSkip = [t \in Targets |-> FALSE]
  /\ State = [t \in Targets |-> "NotReady"]
  /\ DepDone = [t \in Targets |-> {}]
  /\ Err = [t \in Targets |-> "nil"]
  /\ Outputs = [t \in Targets |-> NilOutputs]
  /\ StartTime = [t \in Targets |-> 0]
  /\ EndTime = [t \in Targets |-> 0]
  /\ ReadyList = <<>>
  /\ CompleteList = <<>>
  /\ runningCount = 0
  /\ requestCh = <<>>
  /\ resultCh = <<>>
  /\ eventCh = <<>>
  /\ err = "nil"
  /\ ctxDone = FALSE
  /\ workerCtxDone = FALSE
  /\ wpc = [w \in Workers |-> "exited"]
  /\ wtask = [w \in Workers |-> None]
  /\ handled = <<>>
  /\ Skippable = [t \in Targets |-> None]
  /\ crashed = FALSE
  /\ required = {}
  /\ touched = FALSE
  /\ prev = NoPrev

Init ==
  /\ \E r \in Repos : \E d \in Disks(r.tool) : InitWith(r, d)
  /\ plan = NoPlan
  /\ resolve = NoResolve
  /\ graph = NoGraph
  /\ persistErr = "none"
  /\ InitTool

(***************************************************************************)
(* Task graph at run time.                                                 *)
(***************************************************************************)
DepOn(t) == DepOnOf(deps, tasks, t)
DepBy(t) == DepByOf(deps, tasks, t)

\* Task.Failed
Failed(e) == e # "nil" /\ e # "skipped"

\* Task.Skipped
Skipped(e) == e = "skipped"

\* a faulty release test of Complete: one completed dependency is enough
ReleasedFirst(depDone, e, task) ==
  IF Failed(e) THEN {} ELSE DepBy(task)

\* a faulty release test of Complete: a failed task releases its dependents
ReleasedAfterFailure(depDone, e, task) ==
  {d \in DepBy(task) :
     Cardinality(depDone[d] \cup {task}) >= Cardinality(DepOn(d))}

\* the dependents TaskGraph.Complete puts on the ready list for task
Released(depDone, e, task) ==
  IF Failed(e) THEN {}
  ELSE {d \in DepBy(task) :
          Cardinality(depDone[d] \cup {task}) >= Cardinality(DepOn(d))}

\* TaskGraph.Complete on the graph g = [State, DepDone, ReadyList,
\* CompleteList]; order is the order in which task.DepBy is iterated
Complete(g, e, task, order) ==
  LET by == IF Failed(e) THEN {} ELSE DepBy(task)
  IN [State |-> [t \in Targets |->
                   IF t \in Range(order) THEN "Ready"
                   ELSE IF t = task THEN "Completed"
                   ELSE g.State[t]],
      DepDone |-> [t \in Targets |->
                     IF t \in by THEN g.DepDone[t] \cup {task}
                     ELSE g.DepDone[t]],
      ReadyList |-> g.ReadyList \o order,
      CompleteList |-> Append(g.CompleteList, task)]

\* a haveWorkToDo that gives up one task early
haveWorkToDoButOne(ts, complete) == Len(complete) + 1 < Cardinality(ts)

\* execution.haveWorkToDo
haveWorkToDo(ts, complete) == Len(complete) < Cardinality(ts)

\* a faulty loop condition of enqueue: runningCount is not compared
CanEnqueueUnbounded(rc, ready) == ready # <<>>

\* an enqueue that sends nothing once a task has failed
CanEnqueueUnlessFailed(rc, ready) ==
  rc < NumWorkers /\ ready # <<>> /\ \A t \in Targets : ~Failed(Err[t])

\* the loop condition of execution.enqueue, with its break on an empty
\* ready list
CanEnqueue(rc, ready) == rc < NumWorkers /\ ready # <<>>

\* where the coordinator goes after one pass of the loop of execution.run:
\* the loop condition, then enqueue's loop condition, then the
\* runningCount == 0 break, else waitResults
LoopPc(ts, rc, ready, complete) ==
  IF ~haveWorkToDo(ts, complete) THEN "stop"
  ELSE IF CanEnqueue(rc, ready) THEN "enqueue"
  ELSE IF rc = 0 THEN "stop"
  ELSE "wait"

\* the values time.Now() may return: the clock does not go back
Ticks == {n \in {now, now + 1} : n <= MaxTime}

(***************************************************************************)
(* Environment: a build is requested, an input changes, the caller cancels *)
(***************************************************************************)
\* BuildCmd.Build up to the start of the main loop of execution.run
StartBuild(req, force) ==
  /\ pc \in {"idle", "done"} /\ ~crashed
  /\ build < MaxBuilds
  /\ LET p == Plan(deps, req) IN
     /\ p.err = "nil"
     /\ tasks' = p.tasks
     /\ \E order \in Perms(PrepareReady(deps, p.tasks)) :
          /\ ReadyList' = order
          /\ pc' = LoopPc(p.tasks, 0, order, <<>>)
     /\ State' = [t \in Targets |->
                    IF t \in PrepareReady(deps, p.tasks) THEN "Ready"
                    ELSE "NotReady"]
  /\ build' = build + 1
  /\ required' = req
  /\ NoSkip' = [t \in Targets |-> force /\ t \in req]
  /\ DepDone' = [t \in Targets |-> {}]
  /\ Err' = [t \in Targets |-> "nil"]
  /\ Outputs' = [t \in Targets |-> NilOutputs]
  /\ StartTime' = [t \in Targets |-> 0]
  /\ EndTime' = [t \in Targets |-> 0]
  /\ CompleteList' = <<>>
  /\ runningCount' = 0
  /\ requestCh' = <<>> /\ resultCh' = <<>> /\ eventCh' = <<>>
  /\ err' = "nil"
  /\ ctxDone' = FALSE /\ workerCtxDone' = FALSE
  /\ wpc' = [w \in Workers |-> "idle"]
  /\ wtask' = [w \in Workers |-> None]
  /\ handled' = <<[type |-> "DispatcherStart"]>>
  /\ Skippable' = [t \in Targets |-> None]
  /\ prev' = [ok |-> pc = "done" /\ err = "nil"
                       /\ \A t \in tasks : State[t] = "Completed" /\ ~Failed(Err[t]),
              required |-> required,
              Outputs |-> Outputs,
              persisted |-> \A t \in tasks :
                               tool[t] # "dummy" => stateFile[t] # NoState,
              changed |-> touched]
  /\ touched' = FALSE
  /\ UNCHANGED <<repoVars, diskVars, now, crashed, plan, toolVars>>

\* a declared input of target t, recorded in its saved state, is modified
\* between two builds
Touch(t) ==
  /\ pc \in {"idle", "done"} /\ ~crashed
  /\ build < MaxBuilds
  /\ stateFile[t] # NoState
  /\ srcMTime[t] < MaxMTime
  /\ srcMTime' = [srcMTime EXCEPT ![t] = @ + 1]
  /\ touched' = TRUE
  /\ UNCHANGED <<repoVars, resultFile, stateFile, now, build, pc, tasks, NoSkip,
                 taskVars, ReadyList, CompleteList, runningCount, chanVars, err,
                 ctxDone, workerCtxDone, workerVars, handled, Skippable,
                 crashed, required, prev, plan, toolVars>>

\* the caller's context is cancelled (interrupt or deadline) during Run
Cancel ==
  /\ pc \in {"enqueue", "wait"} /\ ~crashed
  /\ ~ctxDone
  /\ ctxDone' = TRUE
  /\ UNCHANGED <<repoVars, diskVars, now, build, pc, tasks, NoSkip, taskVars,
                 ReadyList, CompleteList, runningCount, chanVars, err,
                 workerCtxDone, workerVars, handled, Skippable, crashed,
                 required, touched, prev, plan, toolVars>>

(***************************************************************************)
(* Coordinator: execution.run, enqueue, waitResults, complete.             *)
(***************************************************************************)
\* one iteration of the loop of execution.enqueue: the select sends the
\* front of the ready list on requestCh
EnqueueSend ==
  /\ pc = "enqueue" /\ ~crashed
  /\ CanEnqueue(runningCount, ReadyList)
  /\ Len(requestCh) < NumWorkers
  /\ LET task == Head(ReadyList) IN
     /\ State' = [State EXCEPT ![task] = "Queued"]
     /\ requestCh' = Append(requestCh, task)
     /\ ReadyList' = Tail(ReadyList)
     /\ runningCount' = runningCount + 1
     /\ pc' = IF CanEnqueue(runningCount + 1, Tail(ReadyList))
              THEN "enqueue" ELSE "wait"
  /\ UNCHANGED <<repoVars, diskVars, now, build, tasks, NoSkip, DepDone, Err,
                 Outputs, StartTime, EndTime, CompleteList, resultCh, eventCh,
                 err, ctxDone, workerCtxDone, workerVars, handled, Skippable,
                 crashed, required, touched, prev, plan, toolVars>>

\* the select of execution.enqueue takes ctx.Done: the task stays Ready at
\* the front of the ready list and run leaves its loop with ctx.Err()
EnqueueCancelled ==
  /\ pc = "enqueue" /\ ~crashed
  /\ CanEnqueue(runningCount, ReadyList)
  /\ ctxDone
  /\ State' = [State EXCEPT ![Head(ReadyList)] = "Ready"]
  /\ err' = "canceled"
  /\ pc' = "stop"
  /\ UNCHANGED <<repoVars, diskVars, now, build, tasks, NoSkip, DepDone, Err,
                 Outputs, StartTime, EndTime, ReadyList, CompleteList,
                 runningCount, chanVars, ctxDone, workerCtxDone, workerVars,
                 handled, Skippable, crashed, required, touched, prev, plan, toolVars>>

\* waitResults takes ctx.Done
WaitCancelled ==
  /\ pc = "wait" /\ ~crashed
  /\ ctxDone
  /\ err' = "canceled"
  /\ pc' = "stop"
  /\ UNCHANGED <<repoVars, diskVars, now, build, tasks, NoSkip, taskVars,
                 ReadyList, CompleteList, runningCount, chanVars, ctxDone,
                 workerCtxDone, workerVars, handled, Skippable, crashed,
                 required, touched, prev, plan, toolVars>>

\* waitResults takes an event from eventCh and notifies the handler
WaitEvent ==
  /\ pc = "wait" /\ ~crashed
  /\ eventCh # <<>>
  /\ handled' = Append(handled, Head(eventCh))
  /\ eventCh' = Tail(eventCh)
  /\ pc' = LoopPc(tasks, runningCount, ReadyList, CompleteList)
  /\ UNCHANGED <<repoVars, diskVars, now, build, tasks, NoSkip, taskVars,
                 ReadyList, CompleteList, runningCount, requestCh, resultCh,
                 err, ctxDone, workerCtxDone, workerVars, Skippable, crashed,
                 required, touched, prev, plan, toolVars>>

\* waitResults takes a task from resultCh: execution.complete
WaitResult ==
  /\ pc = "wait" /\ ~crashed
  /\ resultCh # <<>>
  /\ LET task == Head(resultCh) IN
     \E order \in Perms(Released(DepDone, Err[task], task)) :
       LET g == Complete([State |-> State, DepDone |-> DepDone,
                          ReadyList |-> ReadyList,
                          CompleteList |-> CompleteList],
                         Err[task], task, order)
       IN /\ State' = g.State
          /\ DepDone' = g.DepDone
          /\ ReadyList' = g.ReadyList
          /\ CompleteList' = g.CompleteList
          /\ runningCount' = runningCount - 1
          /\ handled' = Append(handled, [type |-> "TaskComplete", task |-> task])
          /\ pc' = LoopPc(tasks, runningCount - 1, g.ReadyList, g.CompleteList)
  /\ resultCh' = Tail(resultCh)
  /\ UNCHANGED <<repoVars, diskVars, now, build, tasks, NoSkip, Err, Outputs,
                 StartTime, EndTime, requestCh, eventCh, err, ctxDone,
                 workerCtxDone, workerVars, Skippable, crashed, required,
                 touched, prev, plan, toolVars>>

\* after the loop: cancel() and close(requestCh)
StopWorkers ==
  /\ pc = "stop" /\ ~crashed
  /\ workerCtxDone' = TRUE
  /\ pc' = "join"
  /\ UNCHANGED <<repoVars, diskVars, now, build, tasks, NoSkip, taskVars,
                 ReadyList, CompleteList, runningCount, chanVars, err, ctxDone,
                 workerVars, handled, Skippable, crashed, required, touched,
                 prev, plan, toolVars>>

\* a drain that takes the tasks off requestCh and forgets them
DrainRequestsDropped(ch, ready) == ready

RECURSIVE DrainRequests(_, _)
\* the drain of requestCh: every task left goes back to the front of the
\* ready list
DrainRequests(ch, ready) ==
  IF ch = <<>> THEN ready
  ELSE DrainRequests(Tail(ch), <<Head(ch)>> \o ready)

\* a shutdown that leaves the buffered results where they are
DrainResultsDropped(ch, g, evs) == [g |-> g, handled |-> evs]

RECURSIVE DrainResults(_, _, _)
\* the drain of resultCh: execution.complete for every task left
DrainResults(ch, g, evs) ==
  IF ch = <<>> THEN [g |-> g, handled |-> evs]
  ELSE LET task == Head(ch) IN
       DrainResults(Tail(ch),
                    Complete(g, Err[task], task,
                             SetToSeq(Released(g.DepDone, Err[task], task))),
                    Append(evs, [type |-> "TaskComplete", task |-> task]))

\* wg.Wait() returned: close and drain the channels, decide ErrIncomplete,
\* deliver DispatcherEnd and return
Finish ==
  /\ pc = "join" /\ ~crashed
  /\ \A w \in Workers : wpc[w] = "exited"
  /\ LET ready == DrainRequests(requestCh, ReadyList)
         st == [t \in Targets |->
                  IF t \in Range(requestCh) THEN "Ready" ELSE State[t]]
         r == DrainResults(resultCh,
                           [State |-> st, DepDone |-> DepDone,
                            ReadyList |-> ready, CompleteList |-> CompleteList],
                           handled \o eventCh)
         e == IF err = "nil" /\ haveWorkToDo(tasks, r.g.CompleteList)
              THEN "incomplete" ELSE err
     IN /\ State' = r.g.State
        /\ DepDone' = r.g.DepDone
        /\ ReadyList' = r.g.ReadyList
        /\ CompleteList' = r.g.CompleteList
        /\ runningCount' = runningCount - Len(requestCh) - Len(resultCh)
        /\ err' = e
        /\ handled' = Append(r.handled, [type |-> "DispatcherEnd", err |-> e])
  /\ requestCh' = <<>> /\ resultCh' = <<>> /\ eventCh' = <<>>
  /\ pc' = "done"
  /\ UNCHANGED <<repoVars, diskVars, now, build, tasks, NoSkip, Err, Outputs,
                 StartTime, EndTime, ctxDone, workerCtxDone, workerVars,
                 Skippable, crashed, required, touched, prev, plan, toolVars>>

(***************************************************************************)
(* Workers: execution.runWorker, executeTask, writeTaskResult.             *)
(***************************************************************************)
\* xctx.Skippable as the record of the run keeps it
Flag(b) == IF b THEN "true" ELSE "false"

\* execution.loadTaskResult: an unreadable file gives TaskResult{}, which
\* is how resultFile holds a missing file
loadTaskResult(t) == resultFile[t]

\* a faulty dependency test: a dependency built at the very time the task
\* was last started counts as newer
DepAllowsSkipStrict(result, dep) ==
  LET depResult == resultFile[dep] IN
  /\ Skipped(Err[dep])
  /\ ~(depResult.SuccessBuildStartTime = 0 \/ depResult.SuccessBuildEndTime = 0)
  /\ ~(depResult.SuccessBuildStartTime >= result.SuccessBuildStartTime
       \/ depResult.SuccessBuildEndTime >= result.SuccessBuildStartTime)

\* a faulty dependency test: whether the dependency was skipped in this run
\* is not looked at
DepAllowsSkipStale(result, dep) ==
  LET depResult == resultFile[dep] IN
  /\ ~(depResult.SuccessBuildStartTime = 0 \/ depResult.SuccessBuildEndTime = 0)
  /\ ~(depResult.SuccessBuildStartTime > result.SuccessBuildStartTime
       \/ depResult.SuccessBuildEndTime > result.SuccessBuildStartTime)

\* a faulty dependency test: only this run is looked at, the success
\* timestamps of earlier builds are not compared
DepAllowsSkipInRun(result, dep) ==
  LET depResult == resultFile[dep] IN
  /\ Skipped(Err[dep])
  /\ ~(depResult.SuccessBuildStartTime = 0 \/ depResult.SuccessBuildEndTime = 0)

\* the dependency loop of executeTask: dep keeps the task skippable
DepAllowsSkip(result, dep) ==
  LET depResult == loadTaskResult(dep) IN
  /\ Skipped(Err[dep])
  /\ ~(depResult.SuccessBuildStartTime = 0 \/ depResult.SuccessBuildEndTime = 0)
  /\ ~(depResult.SuccessBuildStartTime > result.SuccessBuildStartTime
       \/ depResult.SuccessBuildEndTime > result.SuccessBuildStartTime)

\* xctx.Skippable as executeTask computes it before it runs the executor
SkippableOf(t) ==
  LET result == loadTaskResult(t) IN
  /\ ~always[t] /\ ~NoSkip[t]
  /\ ~(result.SuccessBuildStartTime = 0 \/ result.SuccessBuildEndTime = 0)
  /\ \A dep \in DepOn(t) : DepAllowsSkip(result, dep)

\* FilesCache.Verify: a saved state exists and its inputs match the
\* declared inputs as they are on disk now
Verify(t) == stateFile[t] # NoState /\ stateFile[t].Inputs = srcMTime[t]

\* the content FilesCache.Persist writes for the declarations of t
PersistedState(t) == [Inputs |-> srcMTime[t], TaskOutputs |-> DeclaredOutputs(t)]

\* a faulty executor: the skippable flag is not consulted
ExecOutcomesUngated(t, skippable) ==
  IF tool[t] = "dummy"
  THEN {[ret |-> "skipped", state |-> stateFile[t], out |-> NilOutputs]}
  ELSE IF Verify(t)
  THEN {[ret |-> "skipped", state |-> stateFile[t],
         out |-> stateFile[t].TaskOutputs]}
  ELSE {[ret |-> "failed", state |-> NoState, out |-> NilOutputs],
        [ret |-> "nil", state |-> PersistedState(t),
         out |-> DeclaredOutputs(t)]}

\* what tool.Execute can do for task t with the flag skippable:
\* ret is the returned error ("panic" when the process dies), state the
\* state file afterwards, out the published OutputFiles
ExecOutcomes(t, skippable) ==
  IF tool[t] = "dummy"
  THEN {[ret |-> IF skippable THEN "skipped" ELSE "nil",
         state |-> stateFile[t], out |-> NilOutputs]}
  ELSE IF tool[t] \in {"builtin", "ext"}
  THEN IF skippable /\ Verify(t)
       THEN {[ret |-> "skipped", state |-> stateFile[t],
              out |-> stateFile[t].TaskOutputs]}
       ELSE {[ret |-> "failed", state |-> NoState, out |-> NilOutputs],
             [ret |-> "nil", state |-> PersistedState(t),
              out |-> DeclaredOutputs(t)]}
  ELSE \* "extVX": V, then X whatever the answer; saved is loaded only by
       \* Verify, which runs only when skippable
       IF skippable /\ stateFile[t] # NoState
       THEN {[ret |-> "skipped", state |-> stateFile[t],
              out |-> stateFile[t].TaskOutputs]}
       ELSE {[ret |-> "panic", state |-> stateFile[t], out |-> NilOutputs]}

\* a faulty writeTaskResult: a skip refreshes the success timestamps
writeTaskResultStampsSkip(result, e, start, end) ==
  LET r1 == [result EXCEPT !.StartTime = start, !.EndTime = end,
                           !.Skipped = e = "skipped"]
  IN IF Failed(e) THEN [r1 EXCEPT !.Err = "msg"]
     ELSE [r1 EXCEPT !.SuccessBuildStartTime = start,
                     !.SuccessBuildEndTime = end]

\* execution.writeTaskResult
writeTaskResult(result, e, start, end) ==
  LET r1 == [result EXCEPT !.StartTime = start, !.EndTime = end,
                           !.Skipped = FALSE]
  IN IF e = "skipped" THEN [r1 EXCEPT !.Skipped = TRUE]
     ELSE IF e # "nil" THEN [r1 EXCEPT !.Err = "msg"]
     ELSE [r1 EXCEPT !.SuccessBuildStartTime = start,
                     !.SuccessBuildEndTime = end]

\* runWorker takes a task from requestCh, stamps its start and sends
\* TaskStartEvent on eventCh; when eventCh is full it blocks in the send.
\* Idle workers are interchangeable: the one with the least index receives.
WorkerReceive(w) ==
  /\ wpc[w] = "idle" /\ ~crashed
  /\ \A v \in Workers : v < w => wpc[v] # "idle"
  /\ requestCh # <<>>
  /\ LET t == Head(requestCh) IN
     /\ \E n \in Ticks :
          /\ now' = n
          /\ StartTime' = [StartTime EXCEPT ![t] = n]
     /\ State' = [State EXCEPT ![t] = "Running"]
     /\ Outputs' = [Outputs EXCEPT ![t] = NilOutputs]
     /\ wtask' = [wtask EXCEPT ![w] = t]
     /\ IF Len(eventCh) < NumWorkers
        THEN /\ eventCh' = Append(eventCh, [type |-> "TaskStart", task |-> t,
                                            worker |-> w])
             /\ wpc' = [wpc EXCEPT ![w] = "running"]
        ELSE /\ eventCh' = eventCh
             /\ wpc' = [wpc EXCEPT ![w] = "starting"]
  /\ requestCh' = Tail(requestCh)
  /\ UNCHANGED <<repoVars, diskVars, build, pc, tasks, NoSkip, DepDone, Err,
                 EndTime, ReadyList, CompleteList, runningCount, resultCh,
                 err, ctxDone, workerCtxDone, handled, Skippable,
                 crashed, required, touched, prev, plan, toolVars>>

\* runWorker returns: workerCtx is done or requestCh is closed
WorkerExit(w) ==
  /\ wpc[w] = "idle" /\ ~crashed
  /\ workerCtxDone
  /\ wpc' = [wpc EXCEPT ![w] = "exited"]
  /\ UNCHANGED <<repoVars, diskVars, now, build, pc, tasks, NoSkip, taskVars,
                 ReadyList, CompleteList, runningCount, chanVars, err, ctxDone,
                 workerCtxDone, wtask, handled, Skippable, crashed, required,
                 touched, prev, plan, toolVars>>

\* a worker blocked in the send of TaskStartEvent gets room on eventCh
WorkerSendStart(w) ==
  /\ wpc[w] = "starting" /\ ~crashed
  /\ Len(eventCh) < NumWorkers
  /\ eventCh' = Append(eventCh, [type |-> "TaskStart", task |-> wtask[w],
                                 worker |-> w])
  /\ wpc' = [wpc EXCEPT ![w] = "running"]
  /\ UNCHANGED <<repoVars, diskVars, now, build, pc, tasks, NoSkip, taskVars,
                 ReadyList, CompleteList, runningCount, requestCh, resultCh,
                 err, ctxDone, workerCtxDone, wtask, handled, Skippable,
                 crashed, required, touched, prev, plan, toolVars>>

\* executeTask, the end stamp, writeTaskResult and the send on resultCh,
\* which has room for every task counted in runningCount
WorkerExecute(w) ==
  /\ wpc[w] = "running" /\ ~crashed
  /\ Len(resultCh) < NumWorkers
  /\ LET t == wtask[w]
         skippable == SkippableOf(t)
         result == loadTaskResult(t)
     IN \E o \in ExecOutcomes(t, skippable) :
          /\ o.ret # "panic"
          /\ Skippable' = [Skippable EXCEPT ![t] = Flag(skippable)]
          /\ Err' = [Err EXCEPT ![t] = o.ret]
          /\ Outputs' = [Outputs EXCEPT ![t] = o.out]
          /\ stateFile' = [stateFile EXCEPT ![t] = o.state]
          /\ State' = [State EXCEPT ![t] = "Completed"]
          /\ \E n \in Ticks :
               /\ now' = n
               /\ EndTime' = [EndTime EXCEPT ![t] = n]
               /\ resultFile' = [resultFile EXCEPT ![t] =
                    writeTaskResult(result, o.ret, StartTime[t], n)]
          /\ resultCh' = Append(resultCh, t)
  /\ wpc' = [wpc EXCEPT ![w] = "idle"]
  /\ wtask' = [wtask EXCEPT ![w] = None]
  /\ UNCHANGED <<repoVars, srcMTime, build, pc, tasks, NoSkip, DepDone,
                 StartTime, ReadyList, CompleteList, runningCount, requestCh,
                 eventCh, err, ctxDone, workerCtxDone, handled, crashed,
                 required, touched, prev, plan, toolVars>>

\* ExecuteExtToolCmd dereferences the nil SavedTaskOutputs: the process
\* dies; the result file was removed before the executor ran
WorkerPanic(w) ==
  /\ wpc[w] = "running" /\ ~crashed
  /\ LET t == wtask[w]
         skippable == SkippableOf(t)
     IN /\ \E o \in ExecOutcomes(t, skippable) : o.ret = "panic"
        /\ Skippable' = [Skippable EXCEPT ![t] = Flag(skippable)]
        /\ resultFile' = [resultFile EXCEPT ![t] = ZeroResult]
  /\ crashed' = TRUE
  /\ UNCHANGED <<repoVars, stateFile, srcMTime, now, build, pc, tasks, NoSkip,
                 taskVars, ReadyList, CompleteList, runningCount, chanVars,
                 err, ctxDone, workerCtxDone, workerVars, handled, required,
                 touched, prev, plan, toolVars>>

(***************************************************************************)
(* Specification of the dispatcher across builds.                          *)
(***************************************************************************)
\* the steps of the coordinator and the workers while the caller's
\* context stays alive
Dispatch ==
  \/ EnqueueSend
  \/ WaitEvent
  \/ WaitResult
  \/ StopWorkers
  \/ Finish
  \/ \E w \in Workers : WorkerReceive(w)
  \/ \E w \in Workers : WorkerExit(w)
  \/ \E w \in Workers : WorkerSendStart(w)
  \/ \E w \in Workers : WorkerExecute(w)
  \/ \E w \in Workers : WorkerPanic(w)

\* successive builds of one target each, none of them interrupted
Next ==
  \/ \E t \in Defined(tool), force \in BOOLEAN : StartBuild({t}, force)
  \/ \E t \in Targets : Touch(t)
  \/ Dispatch

Spec == Init /\ [][Next]_vars

(***************************************************************************)
(* Specification of one Dispatcher.Run, interruptible, on wider graphs.    *)
(***************************************************************************)
\* c depends on a and b; three independent targets
RunRepos ==
  { Repo([NoDeps EXCEPT !["c"] = {"a", "b"}],
         [a |-> "builtin", b |-> "ext", c |-> "builtin"], NoAlways),
    Repo(NoDeps, [a |-> "builtin", b |-> "extVX", c |-> "dummy"], NoAlways) }

InitRun ==
  /\ \E r \in RunRepos : \E d \in Disks(r.tool) : InitWith(r, d)
  /\ plan = NoPlan
  /\ resolve = NoResolve
  /\ graph = NoGraph
  /\ persistErr = "none"
  /\ InitTool

\* the only build of the run specification: every target of the repository
StartRun(force) == build = 0 /\ StartBuild(Defined(tool), force)

NextRun ==
  \/ \E force \in BOOLEAN : StartRun(force)
  \/ Cancel
  \/ EnqueueCancelled
  \/ WaitCancelled
  \/ Dispatch

SpecRun == InitRun /\ [][NextRun]_vars

(***************************************************************************)
(* Specification of Repo.Plan on every dependency relation.                *)
(***************************************************************************)
\* every dependency relation over the targets, every non-empty request
InitPlan ==
  /\ \E r \in Repos : \E d \in Disks(r.tool) :
       /\ r = CHOOSE x \in Repos : TRUE
       /\ d = CHOOSE x \in Disks(r.tool) : TRUE
       /\ InitWith(r, d)
  /\ \E d \in [Targets -> SUBSET Targets], req \in (SUBSET Targets) \ {{}} :
       plan = [deps |-> d, required |-> req, result |-> NoResult]
  /\ resolve = NoResolve
  /\ graph = NoGraph
  /\ persistErr = "none"
  /\ InitTool

\* Repo.Plan is called on the input
CallPlan ==
  /\ plan.result = NoResult
  /\ plan' = [plan EXCEPT !.result = Plan(plan.deps, plan.required)]
  /\ UNCHANGED <<repoVars, diskVars, now, build, pc, tasks, NoSkip, taskVars,
                 ReadyList, CompleteList, runningCount, chanVars, err, ctxDone,
                 workerCtxDone, workerVars, handled, Skippable, crashed,
                 required, touched, prev, toolVars>>

NextPlan == CallPlan

SpecPlan == InitPlan /\ [][NextPlan]_vars

(***************************************************************************)
(* One task's executor, run after run, over the files of the project:      *)
(* the built-in tools ("exec" stands for the tools that publish outputs,   *)
(* "files" for the tool that lists sources, "cc" for the tool that runs    *)
(* make) and the external tool driven by control lines ("ext").            *)
(***************************************************************************)
ExecKinds == {"exec", "files", "ext"}
BuiltinKinds == {"exec", "files"}
\* all executors of src/ that work on a FilesCache of their own
CacheKinds == BuiltinKinds \cup {"cc"}

\* the child exits with status 0 or with an error
ExitStatus == {"0", "1"}

\* the generated sources the tools of the model declare
GenDecls == {RelPath("g1", FALSE)}

engineVars == <<deps, tool, always, resultFile, stateFile, srcMTime, now,
                build, pc, tasks, NoSkip, State, DepDone, Err, Outputs,
                StartTime, EndTime, ReadyList, CompleteList, runningCount,
                requestCh, resultCh, eventCh, err, ctxDone, workerCtxDone, wpc,
                wtask, handled, Skippable, crashed, required, touched, prev,
                plan, regVars, resolve, graph>>

mainVars == <<engineVars, persistErr>>

\* the records of CacheReporter
InputRecord(p) == [op |-> "input", p |-> p, key |-> "", rel |-> NoPath, val |-> ""]
OutputRecord(key, rel) ==
  [op |-> "output", p |-> "", key |-> key, rel |-> rel, val |-> ""]
GeneratedRecord(rel) ==
  [op |-> "generated", p |-> "", key |-> "", rel |-> rel, val |-> ""]
OpaqueRecord(val) == [op |-> "opaque", p |-> "", key |-> "", rel |-> NoPath, val |-> val]

\* one record applied to the content c of a cache
ApplyRecord(c, disk, rec) ==
  CASE rec.op = "input" -> AddInput(c, disk, rec.p)
    [] rec.op = "output" -> AddOutput(c, rec.key, rec.rel)
    [] rec.op = "generated" -> AddGenerated(c, rec.rel)
    [] OTHER -> AddOpaque(c, rec.val)

\* a Replay that leaves the opaque strings out
RECURSIVE ReplayNoOpaque(_, _, _)
ReplayNoOpaque(records, disk, c) ==
  IF records = <<>> THEN [err |-> FALSE, current |-> c]
  ELSE IF Head(records).op = "input" /\ ~disk[Head(records).p].Exists
       THEN [err |-> TRUE, current |-> c]
       ELSE ReplayNoOpaque(Tail(records), disk,
                           IF Head(records).op = "opaque" THEN c
                           ELSE ApplyRecord(c, disk, Head(records)))

\* CacheReporter.Replay onto the content c: the records in order, stopping
\* at the first whose input is gone
RECURSIVE Replay(_, _, _)
Replay(records, disk, c) ==
  IF records = <<>> THEN [err |-> FALSE, current |-> c]
  ELSE IF Head(records).op = "input" /\ ~disk[Head(records).p].Exists
       THEN [err |-> TRUE, current |-> c]
       ELSE Replay(Tail(records), disk, ApplyRecord(c, disk, Head(records)))

\* CacheReporter.records with one more record; the records of a built-in
\* tool are never replayed and are left out
Record(rec) == IF xkind = "ext" THEN Append(reporter, rec) ELSE reporter

\* the files somebody else writes or removes while the executors run
TouchDecls == {RelPath("s1", FALSE), RelPath("s1", TRUE), RelPath("o1", FALSE),
               RelPath("o1", TRUE), RelPath("g1", FALSE)}
RemovePaths == {"s1", "o1"}

\* the files change between two runs or while the tool works; a change
\* while a built-in tool declares is the same change made before or after,
\* for every declaration reads the disk at most once
Changing ==
  xpc \in {"idle", "returned", "run", "persist", "control"} /\ ftime < MaxFTime

\* the executor is where it declares what it uses: a built-in tool before
\* its Verify, an external tool as long as its control lines are read
Declaring == xpc \in {"declare", "control"} /\ nlines < MaxLines

\* a built-in tool declares in the order of its Execute: the sources, the
\* outputs, the generated sources, the opaque strings; rank is the place
\* of the declaration in that order
InOrder(rank) ==
  \/ xkind = "ext"
  \/ /\ rank < 2 => fcache.current.Outputs = EmptyEntries
     /\ rank < 3 => fcache.current.Generates = EmptyEntries
     /\ rank < 4 => fcache.current.Opaque = <<>>

\* runWorker hands the task to the executor of its tool
StartExec(kind, skippable) ==
  /\ xpc \in {"idle", "returned"}
  /\ execs < MaxExecs
  /\ execs' = execs + 1
  /\ xkind' = kind
  /\ xskippable' = skippable
  /\ fcache' = [current |-> IF kind = "ext" THEN AddOpaque(NewContent, "cmd")
                            ELSE NewContent,
                saved |-> NilContent]
  /\ reporter' = IF kind = "ext" THEN <<OpaqueRecord("cmd")>> ELSE <<>>
  /\ xpc' = IF kind = "ext" THEN "control" ELSE "declare"
  /\ verified' = None
  /\ xoutputs' = NilOutputFiles
  /\ xresult' = None
  /\ xexit' = None
  /\ reply' = None
  /\ replayed' = NilContent
  /\ nlines' = 0
  /\ runDirty' = {}
  /\ UNCHANGED <<mainVars, files, cacheFile, ftime, persisted, changed,
                 dirty>>

\* CacheReporter.AddSource, the line S or I of an external tool: the file
\* is read with os.Stat now, and a missing file ends the executor
DeclInput(p) ==
  /\ Declaring
  /\ InOrder(1)
  /\ nlines' = nlines + 1
  /\ IF files[p].Exists
     THEN /\ fcache' = [fcache EXCEPT !.current = AddInput(fcache.current, files, p)]
          /\ reporter' = Record(InputRecord(p))
          /\ runDirty' = runDirty \ {p}
          /\ UNCHANGED <<xpc, xresult>>
     ELSE /\ xpc' = "returned"
          /\ xresult' = "failed"
          /\ UNCHANGED <<fcache, reporter, runDirty>>
  /\ UNCHANGED <<mainVars, files, cacheFile, xkind, xskippable, verified,
                 reply, xoutputs, xexit, replayed, ftime, execs, persisted,
                 changed, dirty>>

\* CacheReporter.AddOutput, the line O
DeclOutput(d) ==
  /\ Declaring
  /\ InOrder(2)
  /\ xkind # "files"
  /\ nlines' = nlines + 1
  /\ fcache' = [fcache EXCEPT !.current = AddOutput(fcache.current, d.key, d.rel)]
  /\ reporter' = Record(OutputRecord(d.key, d.rel))
  /\ UNCHANGED <<mainVars, files, cacheFile, xkind, xskippable, xpc,
                 verified, reply, xoutputs, xresult, xexit, replayed, ftime,
                 execs, persisted, changed, dirty, runDirty>>

\* CacheReporter.AddGenerated, the line G
DeclGenerated(rel) ==
  /\ Declaring
  /\ InOrder(3)
  /\ xkind \notin {"files", "cc"}
  /\ nlines' = nlines + 1
  /\ fcache' = [fcache EXCEPT !.current = AddGenerated(fcache.current, rel)]
  /\ reporter' = Record(GeneratedRecord(rel))
  /\ UNCHANGED <<mainVars, files, cacheFile, xkind, xskippable, xpc,
                 verified, reply, xoutputs, xresult, xexit, replayed, ftime,
                 execs, persisted, changed, dirty, runDirty>>

\* CacheReporter.AddOpaque, the line P
DeclOpaque(val) ==
  /\ Declaring
  /\ nlines' = nlines + 1
  /\ fcache' = [fcache EXCEPT !.current = AddOpaque(fcache.current, val)]
  /\ reporter' = Record(OpaqueRecord(val))
  /\ UNCHANGED <<mainVars, files, cacheFile, xkind, xskippable, xpc,
                 verified, reply, xoutputs, xresult, xexit, replayed, ftime,
                 execs, persisted, changed, dirty, runDirty>>

\* what the executor leaves of the state file when it does not skip: exec,
\* go, get and files call cr.ClearSaved(), the Execute of cc has no such call
ClearSaved(kind, saved) == IF kind = "cc" THEN saved ELSE NilContent

\* a built-in tool: if xctx.Skippable && cr.Verify() it publishes the saved
\* outputs (the files tool publishes nothing) and returns ErrSkipped;
\* else cr.ClearSaved() and the work begins
BuiltinCheck ==
  /\ xpc = "declare"
  /\ LET v == FilesCacheVerify(fcache, files, cacheFile)
     IN IF xskippable
        THEN /\ fcache' = [fcache EXCEPT !.saved = v.saved]
             /\ verified' = Flag(v.ok)
             /\ IF v.ok
                THEN /\ xoutputs' = IF xkind # "files"
                                    THEN SavedTaskOutputs(fcache')
                                    ELSE xoutputs
                     /\ xresult' = "skipped"
                     /\ xpc' = "returned"
                     /\ UNCHANGED cacheFile
                ELSE /\ cacheFile' = ClearSaved(xkind, cacheFile)
                     /\ xpc' = IF xkind # "files" THEN "run" ELSE "persist"
                     /\ UNCHANGED <<xoutputs, xresult>>
        ELSE /\ cacheFile' = ClearSaved(xkind, cacheFile)
             /\ xpc' = IF xkind # "files" THEN "run" ELSE "persist"
             /\ UNCHANGED <<fcache, verified, xoutputs, xresult>>
  /\ UNCHANGED <<mainVars, files, reporter, xkind, xskippable, reply, xexit,
                 replayed, ftime, execs, nlines, persisted, changed, dirty,
                 runDirty>>

\* the tool writes the outputs and generated sources it declared
Work ==
  /\ xpc \in {"run", "control"}
  /\ ftime < MaxFTime
  /\ LET outs == DOMAIN fcache.current.Outputs
         gens == DOMAIN fcache.current.Generates
     IN /\ outs \cup gens # {}
        /\ files' = [p \in Paths |->
                       IF p \in outs
                       THEN FileInfo(fcache.current.Outputs[p].Dir, ftime + 1)
                       ELSE IF p \in gens
                       THEN FileInfo(fcache.current.Generates[p].Dir, ftime + 1)
                       ELSE files[p]]
        /\ changed' = changed \cup outs \cup gens
        /\ dirty' = dirty \cup outs \cup gens
        /\ runDirty' = runDirty \cup outs \cup gens
  /\ ftime' = ftime + 1
  /\ xpc' = IF xpc = "run" THEN "persist" ELSE xpc
  /\ UNCHANGED <<mainVars, cacheFile, fcache, reporter, xkind, xskippable,
                 verified, reply, xoutputs, xresult, xexit, replayed, execs,
                 nlines, persisted>>

\* the command of a built-in tool fails: the error is returned and nothing
\* is persisted
BuiltinFail ==
  /\ xpc = "run"
  /\ xpc' = "returned"
  /\ xresult' = "failed"
  /\ UNCHANGED <<mainVars, files, cacheFile, fcache, reporter, xkind,
                 xskippable, verified, reply, xoutputs, xexit, replayed,
                 ftime, execs, nlines, persisted, changed, dirty, runDirty>>

\* xctx.PersistCacheOrLog(cr.Cache), xctx.Output(*cr.TaskOutputs()) and
\* return nil; a Persist that fails is logged; the files tool publishes
\* nothing
BuiltinFinish ==
  /\ xpc = "persist"
  /\ IF CanPersist(fcache, files)
     THEN /\ cacheFile' = MarshalContent(Refreshed(fcache, files))
          /\ persisted' = Refreshed(fcache, files)
          /\ changed' = {}
          /\ dirty' = runDirty \cap DOMAIN fcache.current.Inputs
          /\ persistErr' = "nil"
     ELSE /\ persistErr' = "error"
          /\ UNCHANGED <<cacheFile, persisted, changed, dirty>>
  /\ xoutputs' = IF xkind # "files" THEN fcache.current.TaskOutputs ELSE xoutputs
  /\ xresult' = "ok"
  /\ xpc' = "returned"
  /\ UNCHANGED <<engineVars, files, fcache, reporter, xkind, xskippable,
                 verified, reply, xexit, replayed, ftime, execs, nlines,
                 runDirty>>

\* the line V: the reply is 1 if xctx.Skippable && cache.Verify(), else 0
LineV ==
  /\ xpc = "control"
  /\ nlines < MaxLines
  /\ nlines' = nlines + 1
  /\ LET v == FilesCacheVerify(fcache, files, cacheFile)
     IN IF xskippable
        THEN /\ fcache' = [fcache EXCEPT !.saved = v.saved]
             /\ verified' = Flag(v.ok)
             /\ reply' = IF v.ok THEN "1" ELSE "0"
        ELSE /\ reply' = "0"
             /\ UNCHANGED <<fcache, verified>>
  /\ UNCHANGED <<mainVars, files, cacheFile, reporter, xkind, xskippable,
                 xpc, xoutputs, xresult, xexit, replayed, ftime, execs,
                 persisted, changed, dirty, runDirty>>

\* the line C: cache.ClearSaved()
LineC ==
  /\ xpc = "control"
  /\ nlines < MaxLines
  /\ nlines' = nlines + 1
  /\ cacheFile' = NilContent
  /\ UNCHANGED <<mainVars, files, fcache, reporter, xkind, xskippable, xpc,
                 verified, reply, xoutputs, xresult, xexit, replayed, ftime,
                 execs, persisted, changed, dirty, runDirty>>

\* the line X: controlCmd returns ErrSkipped, the child is waited for and
\* exits with some status, and *cr.SavedTaskOutputs() is published: a nil
\* pointer when the cache loaded no saved state
LineX(status) ==
  /\ xpc = "control"
  /\ xexit' = status
  /\ IF SavedTaskOutputs(fcache) = NilOutputFiles
     THEN /\ xresult' = "panic"
          /\ UNCHANGED xoutputs
     ELSE /\ xresult' = "skipped"
          /\ xoutputs' = SavedTaskOutputs(fcache)
  /\ xpc' = "returned"
  /\ UNCHANGED <<mainVars, files, cacheFile, fcache, reporter, xkind,
                 xskippable, verified, reply, replayed, ftime, execs,
                 nlines, persisted, changed, dirty, runDirty>>

\* the child ends without the line X and with status 0:
\* ReplayAndPersistCacheOrLog on a new cache, whose outputs are published
ExitOk ==
  /\ xpc = "control"
  /\ xexit' = "0"
  /\ LET r == Replay(reporter, files, NewContent)
         cache == [current |-> r.current, saved |-> NilContent]
     IN /\ IF ~r.err /\ CanPersist(cache, files)
           THEN /\ cacheFile' = MarshalContent(Refreshed(cache, files))
                /\ persisted' = Refreshed(cache, files)
                /\ changed' = {}
                /\ dirty' = {}
           ELSE UNCHANGED <<cacheFile, persisted, changed, dirty>>
        /\ persistErr' = IF r.err THEN persistErr
                          ELSE IF CanPersist(cache, files) THEN "nil"
                          ELSE "error"
        /\ xoutputs' = r.current.TaskOutputs
        /\ replayed' = r.current
  /\ xresult' = "ok"
  /\ xpc' = "returned"
  /\ UNCHANGED <<engineVars, files, fcache, reporter, xkind, xskippable,
                 verified, reply, ftime, execs, nlines, runDirty>>

\* the child ends without the line X and with an error: the error is
\* returned and nothing is replayed
ExitErr ==
  /\ xpc = "control"
  /\ xexit' = "1"
  /\ xresult' = "failed"
  /\ xpc' = "returned"
  /\ UNCHANGED <<mainVars, files, cacheFile, fcache, reporter, xkind,
                 xskippable, verified, reply, xoutputs, replayed, ftime,
                 execs, nlines, persisted, changed, dirty, runDirty>>

\* somebody writes the file or makes the directory p
TouchFile(rel) ==
  /\ Changing
  /\ ftime' = ftime + 1
  /\ files' = [files EXCEPT ![rel.p] = FileInfo(rel.dir, ftime + 1)]
  /\ changed' = changed \cup {rel.p}
  /\ dirty' = dirty \cup {rel.p}
  /\ runDirty' = runDirty \cup {rel.p}
  /\ UNCHANGED <<mainVars, cacheFile, fcache, reporter, xkind, xskippable,
                 xpc, verified, reply, xoutputs, xresult, xexit, replayed,
                 execs, nlines, persisted>>

\* somebody removes p
RemoveFile(p) ==
  /\ files[p].Exists
  /\ Changing
  /\ ftime' = ftime + 1
  /\ files' = [files EXCEPT ![p] = NoFile]
  /\ changed' = changed \cup {p}
  /\ dirty' = dirty \cup {p}
  /\ runDirty' = runDirty \cup {p}
  /\ UNCHANGED <<mainVars, cacheFile, fcache, reporter, xkind, xskippable,
                 xpc, verified, reply, xoutputs, xresult, xexit, replayed,
                 execs, nlines, persisted>>

InitCache ==
  /\ \E r \in Repos : \E d \in Disks(r.tool) :
       /\ r = CHOOSE x \in Repos : TRUE
       /\ d = CHOOSE x \in Disks(r.tool) : TRUE
       /\ InitWith(r, d)
  /\ plan = NoPlan
  /\ resolve = NoResolve
  /\ graph = NoGraph
  /\ persistErr = "none"
  /\ InitTool

NextCache ==
  \/ \E kind \in BuiltinKinds, skippable \in BOOLEAN : StartExec(kind, skippable)
  \/ \E p \in SrcPaths : DeclInput(p)
  \/ \E d \in OutputDecls : DeclOutput(d)
  \/ \E rel \in GenDecls : DeclGenerated(rel)
  \/ \E val \in OpaqueValues : DeclOpaque(val)
  \/ BuiltinCheck
  \/ Work
  \/ BuiltinFail
  \/ BuiltinFinish
  \/ \E rel \in TouchDecls : TouchFile(rel)
  \/ \E p \in RemovePaths : RemoveFile(p)

SpecCache == InitCache /\ [][NextCache]_vars

\* the same with the cc executor among the tools, the task keeping its tool
\* from run to run
StartBuiltin(kind, skippable) ==
  xkind \in {"none", kind} /\ StartExec(kind, skippable)

NextBuiltin ==
  \/ \E kind \in CacheKinds, skippable \in BOOLEAN : StartBuiltin(kind, skippable)
  \/ \E p \in SrcPaths : DeclInput(p)
  \/ \E d \in OutputDecls : DeclOutput(d)
  \/ \E rel \in GenDecls : DeclGenerated(rel)
  \/ \E val \in OpaqueValues : DeclOpaque(val)
  \/ BuiltinCheck
  \/ Work
  \/ BuiltinFail
  \/ BuiltinFinish
  \/ \E rel \in TouchDecls : TouchFile(rel)
  \/ \E p \in RemovePaths \cup GenPaths : RemoveFile(p)

SpecBuiltin == InitCache /\ [][NextBuiltin]_vars

(***************************************************************************)
(* Every tool, the external one included, over a few declarations.         *)
(***************************************************************************)
ToolOutputDecls == {[key |-> "", rel |-> RelPath("o1", FALSE)],
                    [key |-> "", rel |-> RelPath("o2", FALSE)]}
ToolOpaqueValues == {"x"}
ToolTouchDecls == {RelPath("s1", FALSE), RelPath("o1", FALSE)}
ToolRemovePaths == {"s1", "o1"}

NextTool ==
  \/ \E kind \in ExecKinds, skippable \in BOOLEAN : StartExec(kind, skippable)
  \/ \E p \in SrcPaths : DeclInput(p)
  \/ \E d \in ToolOutputDecls : DeclOutput(d)
  \/ \E val \in ToolOpaqueValues : DeclOpaque(val)
  \/ BuiltinCheck
  \/ Work
  \/ BuiltinFail
  \/ BuiltinFinish
  \/ LineV
  \/ LineC
  \/ \E status \in ExitStatus : LineX(status)
  \/ ExitOk
  \/ ExitErr
  \/ \E rel \in ToolTouchDecls : TouchFile(rel)
  \/ \E p \in ToolRemovePaths : RemoveFile(p)

SpecTool == InitCache /\ [][NextTool]_vars

(***************************************************************************)
(* One Dispatcher.Run that nobody interrupts. The Go scheduler lets every  *)
(* goroutine that can take a step take one: the coordinator and the        *)
(* workers do not wait for ever while a step of theirs is possible.        *)
(***************************************************************************)
NextRunFair ==
  \/ \E force \in BOOLEAN : StartRun(force)
  \/ Dispatch

SpecRunFair == InitRun /\ [][NextRunFair]_vars /\ WF_vars(Dispatch)

(***************************************************************************)
(* Tool registration: loadProject checks the names, and the workers of one *)
(* Dispatcher.Run register the tools of the tasks they executed.           *)
(***************************************************************************)
notRegVars == <<deps, tool, always, resultFile, stateFile, srcMTime, now,
                build, pc, tasks, NoSkip, State, DepDone, Err, Outputs,
                StartTime, EndTime, ReadyList, CompleteList, runningCount,
                requestCh, resultCh, eventCh, err, ctxDone, workerCtxDone, wpc,
                wtask, handled, Skippable, crashed, required, touched, prev,
                plan, files, cacheFile, fcache, reporter, xkind, xskippable,
                xpc, verified, xoutputs, xresult, ftime, execs, nlines,
                persisted, changed, dirty, runDirty, reply, xexit, replayed>>

\* loadProject on the register-tool entries: an empty name and a name of
\* the built-in registry are errors
LoadRejects(meta) ==
  \E t \in Targets : meta[t] # None /\ (meta[t] = "" \/ meta[t] \in BuiltinNames)

\* a registration that replaces the tool registered before
StoreToolOverwrite(tools, name, task) ==
  [ok |-> TRUE,
   tools |-> [n \in DOMAIN tools \cup {name} |-> IF n = name THEN task ELSE tools[n]]]

\* the locked part of registerToolIfRequested: an error if the name is
\* taken, else the tool of the task is stored
StoreTool(tools, name, task) ==
  IF name \in DOMAIN tools
  THEN [ok |-> FALSE, tools |-> tools]
  ELSE [ok |-> TRUE,
        tools |-> [n \in DOMAIN tools \cup {name} |-> IF n = name THEN task ELSE tools[n]]]

\* the project file is read
LoadProject(meta) ==
  /\ loadState = "unloaded"
  /\ regMeta' = meta
  /\ loadState' = IF LoadRejects(meta) THEN "rejected" ELSE "loaded"
  /\ UNCHANGED <<notRegVars, callVars, regTools, toolsLock, rpc, rout, rerr>>

\* the tasks some worker holds
InFlight == {t \in Targets : rpc[t] \in {"registering", "locked"}}

\* a worker executes the task t: the executor returns ret; then
\* registerToolIfRequested returns nil when the target registers nothing,
\* an error when the task has no output to point the tool at, and else
\* goes for the lock
ExecuteForReg(t, ret, hasOutput) ==
  /\ loadState = "loaded"
  /\ rpc[t] = "idle"
  /\ Cardinality(InFlight) < NumWorkers
  /\ rout' = [rout EXCEPT ![t] = ret]
  /\ IF Failed(ret) \/ regMeta[t] = None
     THEN /\ rerr' = [rerr EXCEPT ![t] = ret]
          /\ rpc' = [rpc EXCEPT ![t] = "done"]
     ELSE IF ~hasOutput
     THEN /\ rerr' = [rerr EXCEPT ![t] = "no outputs"]
          /\ rpc' = [rpc EXCEPT ![t] = "done"]
     ELSE /\ rerr' = rerr
          /\ rpc' = [rpc EXCEPT ![t] = "registering"]
  /\ UNCHANGED <<notRegVars, callVars, regMeta, loadState, regTools, toolsLock>>

\* x.dispatcher.toolsLock.Lock()
LockTools(t) ==
  /\ rpc[t] = "registering"
  /\ toolsLock = None
  /\ toolsLock' = t
  /\ rpc' = [rpc EXCEPT ![t] = "locked"]
  /\ UNCHANGED <<notRegVars, callVars, regMeta, loadState, regTools, rout, rerr>>

\* the test and the store under the lock, the deferred Unlock, and the
\* return of executeTask
RegisterTool(t) ==
  /\ rpc[t] = "locked"
  /\ toolsLock = t
  /\ LET r == StoreTool(regTools, regMeta[t], t)
     IN /\ regTools' = r.tools
        /\ rerr' = [rerr EXCEPT ![t] = IF r.ok THEN rout[t] ELSE "already registered"]
  /\ toolsLock' = None
  /\ rpc' = [rpc EXCEPT ![t] = "done"]
  /\ UNCHANGED <<notRegVars, callVars, regMeta, loadState, rout>>

InitRegister ==
  /\ \E r \in Repos : \E d \in Disks(r.tool) :
       /\ r = CHOOSE x \in Repos : TRUE
       /\ d = CHOOSE x \in Disks(r.tool) : TRUE
       /\ InitWith(r, d)
  /\ plan = NoPlan
  /\ resolve = NoResolve
  /\ graph = NoGraph
  /\ persistErr = "none"
  /\ InitTool

NextRegister ==
  \/ \E meta \in [Targets -> RegNames] : LoadProject(meta)
  \/ \E t \in Targets, ret \in {"nil", "skipped", "failed"}, hasOutput \in BOOLEAN :
       ExecuteForReg(t, ret, hasOutput)
  \/ \E t \in Targets : LockTools(t)
  \/ \E t \in Targets : RegisterTool(t)

SpecRegister == InitRegister /\ [][NextRegister]_vars

(***************************************************************************)
(* Repo.ResolveTargets: a pattern of the command line is resolved into     *)
(* targets.  Strings are sequences of characters.  filepath.Match is the   *)
(* scanChunk / matchChunk algorithm of the Go library; the alphabet holds  *)
(* no path separator, no '-' and no '^', so the branches for them are not  *)
(* taken.                                                                  *)
(***************************************************************************)
\* longest target pattern and longest project pattern explored
MaxPatLen == 3
MaxProjPatLen == 2

\* the characters of target patterns and of project patterns
TargetPatChars == {"a", "*", "?", "\\", "[", "]", " "}
ProjPatChars == {"a", "b", "*", "?", "\\", " "}

\* the strings over an alphabet up to a length
Strings(chars, n) == UNION {[1..k -> chars] : k \in 0..n}

\* the names of the projects of the repository, and the local names a
\* project file may give its targets (any key of the targets map)
ProjectNames == {<<"a">>, <<"b">>}
LocalNames == {<<"a">>, <<"a", "*">>}

RECURSIVE Split(_)
\* strings.Split(pattern, ":")
Split(s) ==
  IF \A i \in 1..Len(s) : s[i] # ":" THEN <<s>>
  ELSE LET i == CHOOSE j \in 1..Len(s) :
                  s[j] = ":" /\ \A k \in 1..(j - 1) : s[k] # ":"
       IN <<SubSeq(s, 1, i - 1)>> \o Split(SubSeq(s, i + 1, Len(s)))

RECURSIVE TrimSpace(_)
\* strings.TrimSpace
TrimSpace(s) ==
  IF s = <<>> THEN s
  ELSE IF Head(s) = " " THEN TrimSpace(Tail(s))
  ELSE IF s[Len(s)] = " " THEN TrimSpace(SubSeq(s, 1, Len(s) - 1))
  ELSE s

RECURSIVE StripStars(_)
\* the leading stars scanChunk drops
StripStars(p) ==
  IF p # <<>> /\ Head(p) = "*" THEN StripStars(Tail(p)) ELSE p

RECURSIVE ChunkEnd(_, _, _)
\* the Scan loop of scanChunk: the length of the chunk that ends before
\* the next star outside a character class
ChunkEnd(p, i, inrange) ==
  IF i > Len(p) THEN Len(p)
  ELSE IF p[i] = "\\" THEN ChunkEnd(p, i + 2, inrange)
  ELSE IF p[i] = "[" THEN ChunkEnd(p, i + 1, TRUE)
  ELSE IF p[i] = "]" THEN ChunkEnd(p, i + 1, FALSE)
  ELSE IF p[i] = "*" /\ ~inrange THEN i - 1
  ELSE ChunkEnd(p, i + 1, inrange)

\* filepath.scanChunk
scanChunk(pattern) ==
  LET q == StripStars(pattern)
      n == ChunkEnd(q, 1, FALSE)
  IN [star |-> Len(q) < Len(pattern),
      chunk |-> SubSeq(q, 1, n),
      rest |-> SubSeq(q, n + 1, Len(q))]

\* filepath.getEsc: one character of a class, possibly escaped; a class
\* that ends here or right after it is malformed
getEsc(chunk) ==
  IF chunk = <<>> \/ Head(chunk) = "]"
  THEN [err |-> TRUE, r |-> "", chunk |-> <<>>]
  ELSE LET c == IF Head(chunk) = "\\" THEN Tail(chunk) ELSE chunk
       IN IF c = <<>> \/ Tail(c) = <<>>
          THEN [err |-> TRUE, r |-> "", chunk |-> <<>>]
          ELSE [err |-> FALSE, r |-> Head(c), chunk |-> Tail(c)]

RECURSIVE classRanges(_, _, _, _)
\* the range loop of matchChunk for a class: r is the character of the
\* name, "" once the match has failed
classRanges(chunk, r, match, nrange) ==
  IF chunk # <<>> /\ Head(chunk) = "]" /\ nrange > 0
  THEN [err |-> FALSE, chunk |-> Tail(chunk), match |-> match]
  ELSE LET e == getEsc(chunk)
       IN IF e.err THEN [err |-> TRUE, chunk |-> <<>>, match |-> FALSE]
          ELSE classRanges(e.chunk, r, match \/ e.r = r, nrange + 1)

BadChunk == [rest |-> <<>>, ok |-> FALSE, err |-> TRUE]

RECURSIVE matchChunkFrom(_, _, _)
\* the loop of matchChunk: after the match failed the chunk is still
\* parsed to the end, the name is no longer read
matchChunkFrom(chunk, s, wasFailed) ==
  IF chunk = <<>>
  THEN IF wasFailed THEN [rest |-> <<>>, ok |-> FALSE, err |-> FALSE]
       ELSE [rest |-> s, ok |-> TRUE, err |-> FALSE]
  ELSE LET failed == wasFailed \/ s = <<>>
           next == IF failed THEN s ELSE Tail(s)
       IN IF Head(chunk) = "["
          THEN LET c == classRanges(Tail(chunk), IF failed THEN "" ELSE Head(s),
                                    FALSE, 0)
               IN IF c.err THEN BadChunk
                  ELSE matchChunkFrom(c.chunk, next, failed \/ ~c.match)
          ELSE IF Head(chunk) = "?"
          THEN matchChunkFrom(Tail(chunk), next, failed)
          ELSE IF Head(chunk) = "\\"
          THEN IF Tail(chunk) = <<>> THEN BadChunk
               ELSE matchChunkFrom(Tail(Tail(chunk)), next,
                                   failed \/ chunk[2] # Head(s))
          ELSE matchChunkFrom(Tail(chunk), next, failed \/ Head(chunk) # Head(s))

\* filepath.matchChunk
matchChunk(chunk, s) == matchChunkFrom(chunk, s, FALSE)

RECURSIVE StarSkip(_, _, _, _)
\* the loop of Match after a star: the chunk is tried after skipping
\* i + 1 characters of the name
StarSkip(chunk, rest, name, i) ==
  IF i >= Len(name) THEN [found |-> FALSE, err |-> FALSE, name |-> <<>>]
  ELSE LET m == matchChunk(chunk, SubSeq(name, i + 2, Len(name)))
       IN IF m.ok
          THEN IF rest = <<>> /\ m.rest # <<>>
               THEN StarSkip(chunk, rest, name, i + 1)
               ELSE [found |-> TRUE, err |-> FALSE, name |-> m.rest]
          ELSE IF m.err THEN [found |-> FALSE, err |-> TRUE, name |-> <<>>]
          ELSE StarSkip(chunk, rest, name, i + 1)

RECURSIVE RestBad(_)
\* the check of the remaining chunks before Match returns false
RestBad(pattern) ==
  IF pattern = <<>> THEN FALSE
  ELSE LET sc == scanChunk(pattern)
       IN matchChunk(sc.chunk, <<>>).err \/ RestBad(sc.rest)

\* a Match that gives up after the first position a star could take
MatchFirstOnly(pattern, name) ==
  IF pattern = <<>> THEN [matched |-> name = <<>>, err |-> FALSE]
  ELSE LET m == matchChunk(StripStars(pattern), name)
       IN [matched |-> m.ok /\ m.rest = <<>>, err |-> m.err]

RECURSIVE Match(_, _)
\* filepath.Match
Match(pattern, name) ==
  IF pattern = <<>> THEN [matched |-> name = <<>>, err |-> FALSE]
  ELSE LET sc == scanChunk(pattern)
           m == matchChunk(sc.chunk, name)
       IN IF sc.star /\ sc.chunk = <<>> THEN [matched |-> TRUE, err |-> FALSE]
          ELSE IF m.ok /\ (m.rest = <<>> \/ sc.rest # <<>>)
          THEN Match(sc.rest, m.rest)
          ELSE IF m.err THEN [matched |-> FALSE, err |-> TRUE]
          ELSE LET k == IF sc.star THEN StarSkip(sc.chunk, sc.rest, name, 0)
                        ELSE [found |-> FALSE, err |-> FALSE, name |-> <<>>]
               IN IF k.found THEN Match(sc.rest, k.name)
                  ELSE IF k.err THEN [matched |-> FALSE, err |-> TRUE]
                  ELSE [matched |-> FALSE, err |-> RestBad(sc.rest)]

\* a target as the caller sees it
Target(project, name) == [Project |-> project, LocalName |-> name]

\* the targets of the projects in ps, in the order the two range loops of
\* ResolveTargets visit them
TargetsOf(projects, ps) ==
  LET flat == UNION {{Target(p, n) : n \in projects[p]} : p \in ps}
  IN SetToSeq(flat)

Resolved(targets, e) == [targets |-> targets, err |-> e]

\* the last test of ResolveTargets
Ambiguous(only, wildcard, n) == only /\ ~wildcard /\ n > 1

\* r.CurrentProject() == nil; a project name is never empty
NoProject == <<>>

\* Repo.ResolveTargets on the projects (name -> local target names) with
\* the current project cur
ResolveTargets(projects, cur, pattern) ==
  LET items == Split(pattern)
      only == Len(items) = 1
      targetPattern == TrimSpace(items[Len(items)])
      projectPattern == TrimSpace(items[1])
      pm == [p \in DOMAIN projects |-> Match(projectPattern, p)]
      selected == IF only THEN DOMAIN projects
                  ELSE IF projectPattern = <<>> THEN {cur} \ {NoProject}
                  ELSE {p \in DOMAIN projects : pm[p].matched}
      all == TargetsOf(projects, selected)
      tm == [i \in 1..Len(all) |-> Match(targetPattern, all[i].LocalName)]
      list == SelectSeq(all, LAMBDA t : Match(targetPattern, t.LocalName).matched)
      wildcardMatch == \E i \in 1..Len(list) : list[i].LocalName # targetPattern
  IN IF Len(items) > 2 THEN Resolved(<<>>, "ErrBadPattern")
     ELSE IF ~only /\ projectPattern = <<>> /\ cur = NoProject
     THEN Resolved(<<>>, "ErrNoCurrentProject")
     ELSE IF ~only /\ projectPattern # <<>> /\ \E p \in DOMAIN projects : pm[p].err
     THEN Resolved(<<>>, "ErrBadPattern")
     ELSE IF targetPattern = <<>> THEN Resolved(<<>>, "ErrBadPattern")
     ELSE IF \E i \in 1..Len(all) : tm[i].err THEN Resolved(<<>>, "ErrBadPattern")
     ELSE IF list = <<>> THEN Resolved(<<>>, "nil")
     ELSE IF Ambiguous(only, wildcardMatch, Len(list))
     THEN Resolved(list, "ErrAmbiguousMatch")
     ELSE Resolved(list, "nil")

\* the repositories explored: two projects with any of the local names
ResolveRepos == [ProjectNames -> SUBSET LocalNames]

\* the patterns explored: a bare target pattern, a project pattern and a
\* target pattern around a colon, and patterns with two colons
ResolvePatterns ==
  Strings(TargetPatChars, MaxPatLen)
  \cup {p \o <<":">> \o t : p \in Strings(ProjPatChars, MaxProjPatLen),
                            t \in Strings(TargetPatChars, MaxPatLen)}
  \cup {p \o <<":", "a", ":", "a">> : p \in Strings(ProjPatChars, MaxProjPatLen)}

\* the current project matters when the project pattern is empty
InitResolve ==
  /\ \E r \in Repos : \E d \in Disks(r.tool) :
       /\ r = CHOOSE x \in Repos : TRUE
       /\ d = CHOOSE x \in Disks(r.tool) : TRUE
       /\ InitWith(r, d)
  /\ plan = NoPlan
  /\ graph = NoGraph
  /\ persistErr = "none"
  /\ InitTool
  /\ \E projects \in ResolveRepos, pattern \in ResolvePatterns,
        cur \in {NoProject, <<"a">>} :
       /\ cur # NoProject =>
            /\ Len(Split(pattern)) = 2
            /\ TrimSpace(Split(pattern)[1]) = <<>>
       /\ resolve = [called |-> FALSE, projects |-> projects, cur |-> cur,
                     pattern |-> pattern]

\* Repo.ResolveTargets is called on the input
CallResolveTargets ==
  /\ ~resolve.called
  /\ resolve' = [called |-> TRUE, projects |-> resolve.projects,
                 cur |-> resolve.cur, pattern |-> resolve.pattern,
                 result |-> ResolveTargets(resolve.projects, resolve.cur,
                                           resolve.pattern)]
  /\ UNCHANGED <<notRegVars, regVars, graph, persistErr>>

NextResolve == CallResolveTargets

SpecResolve == InitResolve /\ [][NextResolve]_vars

(***************************************************************************)
(* BuildTaskGraph on target names: the required names and the dependency   *)
(* names of the project files are strings, split and looked up as the code *)
(* does.  Spec, SpecRun and SpecPlan start from the relation between the   *)
(* targets that this lookup yields.                                        *)
(***************************************************************************)
\* most names in the dependency list of one target
MaxDeps == 2

\* the targets a repository may define: p:x always, the others or not
GraphProjects ==
  {[p \in {<<"p">>, <<"q">>} |-> IF p = <<"p">> THEN {<<"x">>} \cup py ELSE qs] :
     py \in SUBSET {<<"y">>}, qs \in SUBSET {<<"x">>, <<"y">>}}

\* what a dependency list may name: a bare local name, a local name after
\* an empty project, a target of the other project, a target of a project
\* that does not exist
DepNames == {<<"x">>, <<"y">>, <<":", "y">>, <<"q", ":", "x">>, <<"r", ":", "x">>}

\* the names on the command line: global names of targets that may exist,
\* one of a target no project defines, and a name without project
RequiredNames == {<<"p", ":", "x">>, <<"q", ":", "x">>, <<"p", ":", "z">>, <<"x">>}

\* strings.SplitN(name, ":", 2) as SplitTargetName uses it
SplitTargetName(name) ==
  IF \A i \in 1..Len(name) : name[i] # ":" THEN Target(<<>>, name)
  ELSE LET i == CHOOSE j \in 1..Len(name) :
                  name[j] = ":" /\ \A k \in 1..(j - 1) : name[k] # ":"
       IN Target(SubSeq(name, 1, i - 1), SubSeq(name, i + 1, Len(name)))

\* TargetName.GlobalName
GlobalName(tn) == tn.Project \o <<":">> \o tn.LocalName

\* Repo.FindTarget returned nil
NoTarget == Target(<<>>, <<>>)

\* Repo.FindTarget: FindProject, then Project.FindTarget
FindTarget(projects, tn) ==
  IF tn.Project \in DOMAIN projects /\ tn.LocalName \in projects[tn.Project]
  THEN tn ELSE NoTarget

\* a graph without tasks; Tasks maps the global name to the task
EmptyGraph == [Tasks |-> <<>>]

\* the task addTarget makes
NewTask(target) == [Target |-> target, DepOn |-> {}, DepBy |-> {}]

\* TaskGraph.addTarget: the task of the target, made if it is not there
addTarget(g, target) ==
  LET name == GlobalName(target)
  IN IF name \in DOMAIN g.Tasks THEN [g |-> g, newTask |-> FALSE]
     ELSE [g |-> [Tasks |-> [n \in DOMAIN g.Tasks \cup {name} |->
                               IF n = name THEN NewTask(target) ELSE g.Tasks[n]]],
           newTask |-> TRUE]

\* a link that forgets the way back
LinkOneWay(ts, task, dep) ==
  [n \in DOMAIN ts |->
     [Target |-> ts[n].Target,
      DepOn |-> IF n = task THEN ts[n].DepOn \cup {dep} ELSE ts[n].DepOn,
      DepBy |-> ts[n].DepBy]]

\* the two assignments that link a task and its dependency
LinkBothWays(ts, task, dep) ==
  [n \in DOMAIN ts |->
     [Target |-> ts[n].Target,
      DepOn |-> IF n = task THEN ts[n].DepOn \cup {dep} ELSE ts[n].DepOn,
      DepBy |-> IF n = dep THEN ts[n].DepBy \cup {task} ELSE ts[n].DepBy]]

NoGraphBuilt(e) == [err |-> e, g |-> EmptyGraph]

RECURSIVE AddRequired(_, _, _, _)
\* the first loop of BuildTaskGraph over requiredTargets
AddRequired(projects, names, g, resolveList) ==
  IF names = <<>> THEN [err |-> "nil", g |-> g, resolveList |-> resolveList]
  ELSE LET tn == SplitTargetName(Head(names))
           target == FindTarget(projects, tn)
           a == addTarget(g, target)
       IN IF tn.Project = <<>>
          THEN [err |-> "not a global target name", g |-> EmptyGraph, resolveList |-> <<>>]
          ELSE IF target = NoTarget
          THEN [err |-> "unknown target", g |-> EmptyGraph, resolveList |-> <<>>]
          ELSE AddRequired(projects, Tail(names), a.g,
                           IF a.newTask THEN Append(resolveList, GlobalName(target))
                           ELSE resolveList)

RECURSIVE LinkDeps(_, _, _, _, _)
\* the loop over task.Target.meta.Deps
LinkDeps(projects, task, names, g, resolveList) ==
  IF names = <<>> THEN [err |-> "nil", g |-> g, resolveList |-> resolveList]
  ELSE LET split == SplitTargetName(Head(names))
           tn == IF split.Project = <<>>
                 THEN Target(g.Tasks[task].Target.Project, split.LocalName)
                 ELSE split
           depTarget == FindTarget(projects, tn)
           a == addTarget(g, depTarget)
           dep == GlobalName(depTarget)
       IN IF depTarget = NoTarget
          THEN [err |-> "unknown dependency", g |-> EmptyGraph, resolveList |-> <<>>]
          ELSE LinkDeps(projects, task, Tail(names),
                        [Tasks |-> LinkBothWays(a.g.Tasks, task, dep)],
                        IF a.newTask THEN Append(resolveList, dep) ELSE resolveList)

RECURSIVE ResolveDeps(_, _, _, _)
\* the second loop of BuildTaskGraph: the front of resolveList is taken
\* off and its dependency names are resolved
ResolveDeps(projects, meta, g, resolveList) ==
  IF resolveList = <<>> THEN [err |-> "nil", g |-> g]
  ELSE LET task == Head(resolveList)
           r == LinkDeps(projects, task, SetToSeq(meta[g.Tasks[task].Target]),
                         g, Tail(resolveList))
       IN IF r.err # "nil" THEN NoGraphBuilt(r.err)
          ELSE ResolveDeps(projects, meta, r.g, r.resolveList)

\* BuildTaskGraph(r, requiredTargets...): meta gives the Deps of every
\* target the projects define
BuildTaskGraphOf(projects, meta, requiredTargets) ==
  LET r == AddRequired(projects, requiredTargets, EmptyGraph, <<>>)
  IN IF r.err # "nil" THEN NoGraphBuilt(r.err)
     ELSE ResolveDeps(projects, meta, r.g, r.resolveList)

\* the targets the projects define
DefinedTargets(projects) ==
  UNION {{Target(p, n) : n \in projects[p]} : p \in DOMAIN projects}

\* the dependency lists explored: up to MaxDeps names
DepLists == {d \in SUBSET DepNames : Cardinality(d) <= MaxDeps}

\* the targets given a dependency list: all but q:y, which has none
WithDeps(projects) == DefinedTargets(projects) \ {Target(<<"q">>, <<"y">>)}

InitGraph ==
  /\ \E r \in Repos : \E d \in Disks(r.tool) :
       /\ r = CHOOSE x \in Repos : TRUE
       /\ d = CHOOSE x \in Disks(r.tool) : TRUE
       /\ InitWith(r, d)
  /\ plan = NoPlan
  /\ resolve = NoResolve
  /\ persistErr = "none"
  /\ InitTool
  /\ \E projects \in GraphProjects :
       \E m \in [WithDeps(projects) -> DepLists],
          req \in (SUBSET RequiredNames) \ {{}} :
         /\ Cardinality(req) <= 2
         /\ graph = [called |-> FALSE, projects |-> projects,
                     meta |-> [t \in DefinedTargets(projects) |->
                                 IF t \in DOMAIN m THEN m[t] ELSE {}],
                     required |-> SetToSeq(req)]

\* BuildTaskGraph is called on the input
CallBuildTaskGraph ==
  /\ ~graph.called
  /\ graph' = [called |-> TRUE, projects |-> graph.projects,
               meta |-> graph.meta, required |-> graph.required,
               result |-> BuildTaskGraphOf(graph.projects, graph.meta,
                                           graph.required)]
  /\ UNCHANGED <<notRegVars, regVars, resolve, persistErr>>

NextGraph == CallBuildTaskGraph

SpecGraph == InitGraph /\ [][NextGraph]_vars

(***************************************************************************)
(* Properties of Repo.Plan and TaskGraph.Prepare.                          *)
(***************************************************************************)
RECURSIVE Closure(_, _)
\* the least set that contains S and the dependencies of its members
Closure(d, S) ==
  LET n == S \cup UNION {d[x] : x \in S}
  IN IF n = S THEN S ELSE Closure(d, n)

\* what t depends on, directly or transitively
TransDeps(d, t) == Closure(d, d[t])

\* t lies on a dependency cycle (a self-dependency is a cycle)
OnCycle(d, t) == t \in TransDeps(d, t)

\* the graph reachable from the required targets
Reachable(d, req) == Closure(d, req)

\* C5: Plan returns the cyclic-dependencies error exactly when the graph
\* reachable from the required targets has a cycle (a self-dependency
\* included); on an acyclic graph Prepare returns the empty set and Plan
\* succeeds.
C5_PlanCyclicIffCycle ==
  plan.result # NoResult =>
    LET cycle == \E t \in Reachable(plan.deps, plan.required) :
                   OnCycle(plan.deps, t)
    IN /\ (plan.result.err = "cyclic") <=> cycle
       /\ ~cycle => plan.result.cyclic = {} /\ plan.result.err = "nil"

\* a request that reaches a self-dependency got the error, while the
\* repository has another target, outside the request, that is acyclic
C5_Witness ==
  /\ plan.result.err = "cyclic"
  /\ \E t \in plan.result.tasks : t \in plan.deps[t]
  /\ \E t \in plan.result.tasks : plan.deps[t] = {} /\ t \notin plan.result.cyclic

\* C6: the set Prepare returns is exactly the set of tasks that lie on a
\* dependency cycle or depend transitively on a task that lies on one.
C6_PrepareReturnsCyclic ==
  plan.result # NoResult =>
    plan.result.cyclic =
      {t \in Reachable(plan.deps, plan.required) :
         \/ OnCycle(plan.deps, t)
         \/ \E u \in TransDeps(plan.deps, t) : OnCycle(plan.deps, u)}

\* Prepare returned a task that is on no cycle but depends on one, beside
\* a dependency that is acyclic
C6_Witness ==
  \E t \in plan.result.cyclic :
    /\ ~OnCycle(plan.deps, t)
    /\ \E u \in plan.deps[t] : OnCycle(plan.deps, u)
    /\ \E u \in plan.deps[t] : u \notin plan.result.cyclic

(***************************************************************************)
(* Properties of one Dispatcher.Run.                                       *)
(***************************************************************************)
\* the events delivered to the handler, then those still on eventCh
Events == handled \o eventCh

\* an event of the given type for task t is at position i of the sequence
IsEvent(evs, i, type, t) == evs[i].type = type /\ evs[i].task = t

Delivered(type, t) == \E i \in 1..Len(handled) : IsEvent(handled, i, type, t)

\* C1: for every task T and every dependency D of T, the coordinator has
\* processed D's completion and delivered TaskComplete(D) to the handler
\* before T is on the ready list or the request channel, before T starts,
\* and before TaskStart(T) is sent or delivered, whether D was executed or
\* skipped.
C1_DependencyCompleteBeforeStart ==
  \A T \in tasks : \A D \in DepOn(T) :
    /\ (\/ State[T] # "NotReady"
        \/ T \in Range(ReadyList) \/ T \in Range(requestCh)
        \/ \E w \in Workers : wtask[w] = T)
       => /\ D \in Range(CompleteList)
          /\ State[D] = "Completed"
          /\ Delivered("TaskComplete", D)
    /\ \A i \in 1..Len(Events) :
         IsEvent(Events, i, "TaskStart", T)
         => \E j \in 1..Len(handled) :
              j < i /\ IsEvent(handled, j, "TaskComplete", D)

\* TaskStart of a dependent was delivered after the completions of its two
\* dependencies, both skipped
C1_Witness ==
  /\ Delivered("TaskStart", "c")
  /\ DepOn("c") = {"a", "b"}
  /\ \A D \in DepOn("c") : Skipped(Err[D]) /\ Delivered("TaskComplete", D)

\* C2: at most numWorkers tasks are Running, and runningCount stays
\* between 0 and numWorkers; until the workers are joined it counts the
\* tasks on the request channel, held by a worker, or on the result channel.
C2_RunningBounded ==
  /\ Cardinality({t \in tasks : State[t] = "Running"}) <= NumWorkers
  /\ 0 <= runningCount /\ runningCount <= NumWorkers
  /\ (pc \in {"enqueue", "wait", "stop", "join"} /\ ~crashed)
     => runningCount = Len(requestCh) + Len(resultCh)
                       + Cardinality({w \in Workers : wtask[w] # None})

\* every worker is executing while a third task waits on the ready list
C2_Witness ==
  /\ Cardinality({t \in tasks : State[t] = "Running"}) = NumWorkers
  /\ runningCount = NumWorkers
  /\ ReadyList # <<>>

\* the tasks of the graph that depend on t, directly or transitively
TransDepBy(t) == {u \in tasks : t \in TransDeps(deps, u)}

\* C3: once a task has failed (an error other than the skip sentinel), no
\* task that depends on it directly or transitively leaves NotReady in that
\* run: it is not on the ready list, not queued, not started.
C3_FailedBlocksDependents ==
  \A D \in tasks : Failed(Err[D]) =>
    \A T \in TransDepBy(D) :
      /\ State[T] = "NotReady"
      /\ T \notin Range(ReadyList) /\ T \notin Range(requestCh)
      /\ \A w \in Workers : wtask[w] # T
      /\ StartTime[T] = 0
      /\ \A i \in 1..Len(Events) : ~IsEvent(Events, i, "TaskStart", T)

\* the run ended after a failed: b, which depends on a, and c, which
\* depends on a only through b, are still NotReady
C3_Witness ==
  /\ pc = "done"
  /\ Failed(Err["a"])
  /\ tasks = {"a", "b", "c"}
  /\ "b" \in DepBy("a") /\ "c" \in TransDepBy("a") \ DepBy("a")
  /\ State["b"] = "NotReady" /\ State["c"] = "NotReady"

\* C4: whenever some task failed in a run that was not cancelled, Run
\* returns the some-task-failed error and DispatcherEnd carries it; Run
\* never returns nil when some task failed.
C4_FailureReturnsSomeTaskFailed ==
  (pc = "done" /\ ~ctxDone /\ \E t \in tasks : Failed(Err[t]))
  => /\ err = "someTaskFailed"
     /\ handled[Len(handled)] = [type |-> "DispatcherEnd", err |-> "someTaskFailed"]

(***************************************************************************)
(* Properties of skipping, within a build and across builds.               *)
(***************************************************************************)
\* both success timestamps of a persisted result are set
Succeeded(r) == r.SuccessBuildStartTime # 0 /\ r.SuccessBuildEndTime # 0

\* the gate with dependencies strictly older than the task's previous
\* successful start
GateStrictlyOlder(t) ==
  /\ ~always[t] /\ ~NoSkip[t]
  /\ Succeeded(resultFile[t])
  /\ \A D \in DepOn(t) :
       /\ Skipped(Err[D])
       /\ Succeeded(resultFile[D])
       /\ resultFile[D].SuccessBuildStartTime < resultFile[t].SuccessBuildStartTime
       /\ resultFile[D].SuccessBuildEndTime < resultFile[t].SuccessBuildStartTime

\* the gate with dependencies not later than the task's previous successful
\* start
GateNotLater(t) ==
  /\ ~always[t] /\ ~NoSkip[t]
  /\ Succeeded(resultFile[t])
  /\ \A D \in DepOn(t) :
       /\ Skipped(Err[D])
       /\ Succeeded(resultFile[D])
       /\ resultFile[D].SuccessBuildStartTime <= resultFile[t].SuccessBuildStartTime
       /\ resultFile[D].SuccessBuildEndTime <= resultFile[t].SuccessBuildStartTime

\* the step in which executeTask hands the flag for task t to the executor
GateComputed(t) == Skippable[t] = None /\ Skippable'[t] # None

\* C7 as stated: the flag is true exactly when the always flag is unset,
\* the task is not NoSkip, its persisted result has both success
\* timestamps, and every direct dependency was skipped in this run, has
\* both success timestamps, and has them strictly older than the task's
\* previous successful start.
C7_SkippableIffStrictlyOlder ==
  [][\A t \in Targets : GateComputed(t) => Skippable'[t] = Flag(GateStrictlyOlder(t))]_vars

\* C7 amended: as above, with the dependency's success timestamps not
\* later than the task's previous successful start (equal timestamps keep
\* the task skippable).
C7_SkippableIffNotLater ==
  [][\A t \in Targets : GateComputed(t) => Skippable'[t] = Flag(GateNotLater(t))]_vars

\* a task was handed skippable = true and skipped although its dependency,
\* skipped too, succeeded last at the very time the task was last started
C7_Witness ==
  \E t \in tasks : \E D \in DepOn(t) :
    /\ Skippable[t] = "true" /\ Skipped(Err[t]) /\ Skipped(Err[D])
    /\ resultFile[D].SuccessBuildEndTime = resultFile[t].SuccessBuildStartTime

\* C8: within one run, when a task completed without being skipped and
\* without failing, no task that depends on it directly or transitively,
\* also through a dummy target, is skipped.
C8_ExecutedDepForcesDependents ==
  \A D \in tasks :
    (State[D] = "Completed" /\ Err[D] = "nil")
    => \A T \in TransDepBy(D) : ~Skipped(Err[T])

\* a was built before and was executed again; the dummy b above it and c
\* above b, both built before, c with a cache that verifies, completed
\* without being skipped
C8_Witness ==
  /\ tasks = {"a", "b", "c"} /\ tool["b"] = "dummy"
  /\ "c" \in TransDepBy("a") \ DepBy("a")
  /\ \A t \in tasks : State[t] = "Completed" /\ Err[t] = "nil"
  /\ prev.ok /\ ~NoSkip["c"]
  /\ Skippable["a"] = "true" /\ Skippable["b"] = "false" /\ Skippable["c"] = "false"

\* C9: a task whose gate is false (always flag, NoSkip, no earlier success,
\* or a dependency that was not skipped) never completes as Skipped,
\* whatever its executor: dummy, built-in, or external, also one that
\* sends X without a V answered with 1.
C9_GateFalseNeverSkipped ==
  \A t \in tasks :
    (\/ Skippable[t] = "false"
     \/ always[t] \/ NoSkip[t]
     \/ \E D \in DepOn(t) : State[D] = "Completed" /\ ~Skipped(Err[D]))
    => ~Skipped(Err[t])

\* an external tool sent X to a task whose gate was false: the process
\* died on the nil saved outputs, the task did not complete
C9_Witness ==
  \E t \in tasks :
    /\ tool[t] = "extVX" /\ Skippable[t] = "false"
    /\ crashed /\ State[t] = "Running" /\ ~Skipped(Err[t])

\* the build that ended follows a build of the same targets in which every
\* task succeeded, and nothing declared changed in between
UnchangedRebuild ==
  /\ pc = "done" /\ build >= 2
  /\ prev.ok /\ prev.required = required /\ ~prev.changed

AllSkippedSameOutputs ==
  \A t \in tasks : Skipped(Err[t]) /\ Outputs[t] = prev.Outputs[t]

SavedState == IF fcache.saved # NilContent THEN fcache.saved
              ELSE loadStateFrom(cacheFile)

\* FilesCache.Verify is called in this step
VerifyCalled == (BuiltinCheck \/ LineV) /\ xskippable

\* the entry e of a saved state is not what the disk holds at p
EntryDiffers(e, p) ==
  ~files[p].Exists \/ e.Dir # files[p].Dir \/ e.MTime # files[p].MTime

InputChanged(saved, current) ==
  \E p \in DOMAIN saved.Inputs \cap DOMAIN current.Inputs :
    \/ saved.Inputs[p].MTime # current.Inputs[p].MTime
    \/ saved.Inputs[p].Dir # current.Inputs[p].Dir

OpaqueDiffers(saved, current) ==
  \/ Len(saved.Opaque) # Len(current.Opaque)
  \/ \E n \in 1..Len(saved.Opaque) : saved.Opaque[n] # current.Opaque[n]

OutputChanged(saved, current) ==
  \/ \E p \in DOMAIN current.Outputs :
       p \notin DOMAIN saved.Outputs \/ EntryDiffers(saved.Outputs[p], p)
  \/ \E p \in DOMAIN current.Generates :
       p \notin DOMAIN saved.Generates \/ EntryDiffers(saved.Generates[p], p)

\* one of the reasons for which Verify has to return false
MustReexecute ==
  \/ SavedState = NilContent
  \/ /\ SavedState # NilContent
     /\ \/ DOMAIN SavedState.Inputs # DOMAIN fcache.current.Inputs
        \/ InputChanged(SavedState, fcache.current)
        \/ OpaqueDiffers(SavedState, fcache.current)
        \/ OutputChanged(SavedState, fcache.current)

\* C11: whenever FilesCache.Verify is called while no saved state exists, or
\* the declared input paths differ from the saved ones, or a declared input
\* has another modification time or is-directory flag than saved, or the
\* opaque list differs in length or at a position, or a declared output or
\* generate is missing on disk or differs from its saved entry, Verify
\* returns false and the executor does not return the skip sentinel
C11_VerifyFalseOnDifference ==
  [][(VerifyCalled /\ MustReexecute)
       => (verified' = "false" /\ xresult' # "skipped")]_vars

\* a Verify returned false against a loaded saved state with the same
\* paths, whose opaque strings are the declared ones in another order
C11_Witness ==
  /\ verified = "false"
  /\ xpc = "run"
  /\ fcache.saved # NilContent
  /\ DOMAIN fcache.saved.Inputs = DOMAIN fcache.current.Inputs
  /\ DOMAIN fcache.saved.Outputs = DOMAIN fcache.current.Outputs
  /\ Len(fcache.saved.Opaque) = 2
  /\ Len(fcache.current.Opaque) = 2
  /\ fcache.saved.Opaque[1] = fcache.current.Opaque[2]
  /\ fcache.saved.Opaque[1] # fcache.current.Opaque[1]

\* the declarations of the run are those of the content c: the same
\* input, output and generate paths, outputs of the same kind under the
\* same keys, the same opaque strings in the same order
SameDeclarations(current, c) ==
  /\ DOMAIN current.Inputs = DOMAIN c.Inputs
  /\ DOMAIN current.Outputs = DOMAIN c.Outputs
  /\ DOMAIN current.Generates = DOMAIN c.Generates
  /\ \A p \in DOMAIN current.Outputs : current.Outputs[p].Dir = c.Outputs[p].Dir
  /\ \A p \in DOMAIN current.Generates : current.Generates[p].Dir = c.Generates[p].Dir
  /\ current.TaskOutputs = c.TaskOutputs
  /\ current.Opaque = c.Opaque

DeclaredPaths(c) == DOMAIN c.Inputs \cup DOMAIN c.Outputs \cup DOMAIN c.Generates

\* a built-in executor with the skippable flag set is about to call Verify
\* with the declarations its last successful run persisted
RepeatsPersistedRun ==
  /\ BuiltinCheck
  /\ xskippable
  /\ persisted # NilContent
  /\ SameDeclarations(fcache.current, persisted)

\* C12 as stated: with the skippable flag set, the declarations of the
\* last successful run, and no declared input, output or generate changed
\* on disk since that Persist, Verify returns true and the executor
\* returns the skip sentinel
C12_UnchangedSincePersistSkips ==
  [][(RepeatsPersistedRun /\ DeclaredPaths(fcache.current) \cap changed = {})
       => (verified' = "true" /\ xresult' = "skipped")]_vars

\* C12: with the skippable flag set, the declarations of the last
\* successful run, its state file still in place, no declared input changed
\* since that run read its stat when it declared it, and no declared output
\* or generate changed since that Persist, Verify returns true and the
\* executor returns the skip sentinel
C12_UnchangedSinceDeclaredSkips ==
  [][(/\ RepeatsPersistedRun
      /\ cacheFile = MarshalContent(persisted)
      /\ DOMAIN fcache.current.Inputs \cap dirty = {}
      /\ (DOMAIN fcache.current.Outputs \cup DOMAIN fcache.current.Generates)
           \cap changed = {})
       => (verified' = "true" /\ xresult' = "skipped")]_vars

\* the second run declared an input and an output as the first did and
\* was skipped
C12_Witness ==
  /\ execs = 2
  /\ xresult = "skipped"
  /\ verified = "true"
  /\ persisted # NilContent
  /\ SameDeclarations(fcache.current, persisted)
  /\ DOMAIN fcache.current.Inputs # {}
  /\ DOMAIN fcache.current.Outputs # {}

BlockedOnEventCh(w) == wpc[w] = "starting" /\ Len(eventCh) >= NumWorkers

\* C14: once the context is cancelled and the coordinator waits in
\* wg.Wait() for the workers, no worker is blocked sending on the event
\* channel, which nobody reads before wg.Wait() returns; otherwise Run
\* never returns
C14_CancelledRunReturns ==
  (ctxDone /\ pc = "join" /\ ~crashed) => \A w \in Workers : ~BlockedOnEventCh(w)

\* Run returned
Returned == pc = "done"

\* the tasks of the graph that execution.complete has not seen
Uncompleted == {t \in tasks : t \notin Range(CompleteList)}

\* Run is in progress
Running == pc \notin {"idle", "done"}

\* C15: a run that is not cancelled terminates (Run returns, unless an
\* executor made the process die), and when it has returned its error is
\* ErrIncomplete exactly if some task of the graph has not completed, in
\* which case nothing is queued or running and the ready list is empty
C15_TerminatesIncompleteIffUncompleted ==
  /\ [](Returned => /\ (err = "incomplete") = (Uncompleted # {})
                    /\ err \in {"nil", "incomplete"}
                    /\ Uncompleted # {} =>
                         /\ runningCount = 0
                         /\ ReadyList = <<>>
                         /\ requestCh = <<>>
                         /\ \A t \in Uncompleted : State[t] = "NotReady")
  /\ (Running ~> (Returned \/ crashed))

\* Run returned ErrIncomplete: a task failed and its dependent never ran
C15_Witness ==
  /\ Returned
  /\ err = "incomplete"
  /\ ~ctxDone
  /\ \E t \in tasks : Failed(Err[t]) /\ DepBy(t) \cap Uncompleted # {}

\* no direct or transitive dependency of t has failed
NoFailedDependency(t) == \A d \in TransDeps(deps, t) \cap tasks : ~Failed(Err[d])

\* t was started by a worker and completed by the coordinator, and the
\* handler was told both
StartedAndCompleted(t) ==
  /\ t \in Range(CompleteList)
  /\ State[t] = "Completed"
  /\ Delivered("TaskStart", t)
  /\ Delivered("TaskComplete", t)

\* the position of t in the sequence s
IndexOf(s, t) == CHOOSE i \in 1..Len(s) : s[i] = t

\* C16: a run that is not cancelled comes to its return (unless an
\* executor made the process die) with every task started and completed
\* none of whose direct or transitive dependencies failed, whatever other
\* tasks failed before
C16_FailureDoesNotStopIndependentWork ==
  /\ [](Returned => \A t \in tasks : NoFailedDependency(t) => StartedAndCompleted(t))
  /\ \A t \in Targets :
       (Running /\ t \in tasks)
         ~> (crashed \/ (Returned /\ (NoFailedDependency(t) => StartedAndCompleted(t))))

\* Run returned; a task failed, and a task that does not depend on it was
\* completed after it
C16_Witness ==
  /\ Returned
  /\ \E f \in tasks, t \in tasks :
       /\ Failed(Err[f])
       /\ f \notin TransDeps(deps, t) /\ t # f
       /\ ~Failed(Err[t])
       /\ StartedAndCompleted(t)
       /\ f \in Range(CompleteList)
       /\ IndexOf(CompleteList, f) < IndexOf(CompleteList, t)
       /\ \E i, j \in 1..Len(handled) :
            /\ i < j
            /\ IsEvent(handled, i, "TaskComplete", f)
            /\ IsEvent(handled, j, "TaskStart", t)

\* how many events of the given type for task t the handler received
Count(type, t) ==
  Cardinality({i \in 1..Len(handled) : IsEvent(handled, i, type, t)})

\* how many events of the given type the handler received
CountType(type) == Cardinality({i \in 1..Len(handled) : handled[i].type = type})

\* C17: when Run has returned, the handler has received DispatcherStart
\* first and DispatcherEnd last and no other of the two; if Run returned
\* nil, exactly one TaskStart and one TaskComplete for every task of the
\* graph lie between them; in any run, the cancelled ones included, every
\* task that has a TaskStart has exactly one TaskComplete before
\* DispatcherEnd
C17_EventStreamWellFormed ==
  (Returned /\ ~crashed) =>
     /\ handled[1].type = "DispatcherStart"
     /\ handled[Len(handled)] = [type |-> "DispatcherEnd", err |-> err]
     /\ CountType("DispatcherStart") = 1
     /\ CountType("DispatcherEnd") = 1
     /\ eventCh = <<>> /\ resultCh = <<>>
     /\ err = "nil" =>
          \A t \in tasks : Count("TaskStart", t) = 1 /\ Count("TaskComplete", t) = 1
     /\ \A t \in Targets :
          /\ Count("TaskStart", t) <= 1
          /\ Count("TaskStart", t) = 1 => Count("TaskComplete", t) = 1

\* a cancelled run returned the context error after a task was started,
\* and its TaskStart and TaskComplete were both delivered
C17_Witness ==
  /\ Returned
  /\ err = "canceled"
  /\ \E t \in tasks : Count("TaskStart", t) = 1 /\ Count("TaskComplete", t) = 1
  /\ \E t \in tasks : Count("TaskStart", t) = 0

(***************************************************************************)
(* Properties of the control protocol of external tools.                   *)
(***************************************************************************)

\* the external tool sends the line X in this step
SendsX == \E status \in ExitStatus : LineX(status)

\* the reply to a line V is 1 if the flag is set and no reason to execute
\* again holds between the declarations so far and the saved state, and it
\* is 0 if the flag is unset or one of those reasons holds
ReplyIsVerdict ==
  /\ reply' \in {"0", "1"}
  /\ reply' = "1" => (xskippable /\ ~MustReexecute)
  /\ (~xskippable \/ MustReexecute) => reply' = "0"
  /\ reply' = IF /\ xskippable
                 /\ SavedState # NilContent
                 /\ VerifyLoaded(SavedState, fcache.current, files)
              THEN "1" ELSE "0"

\* every line V is answered by the verdict
RepliesAreVerdicts == [][LineV => ReplyIsVerdict]_vars

\* C18: every line V is answered 1 if the skippable flag is set and the
\* declarations received so far verify against the saved state, and 0
\* otherwise; and when the tool sends X after a line V, the task completes
\* as Skipped with the saved OutputFiles published, whatever the exit
\* status of the child
C18_VerifyReplyAndSkipOnX ==
  [][/\ LineV => ReplyIsVerdict
     /\ (SendsX /\ reply # None) =>
          /\ xresult' = "skipped"
          /\ SavedState # NilContent
          /\ xoutputs' = SavedState.TaskOutputs]_vars

\* the content c has the outputs, generates, opaque list and OutputFiles of
\* the reporter's cache
SameAsReporter(c) ==
  /\ c.Outputs = fcache.current.Outputs
  /\ c.Generates = fcache.current.Generates
  /\ c.Opaque = fcache.current.Opaque
  /\ c.TaskOutputs = fcache.current.TaskOutputs

\* every input the tool reported is still on disk
ReportedInputsExist == \A p \in DOMAIN fcache.current.Inputs : files[p].Exists

\* the state file after a Persist of the content c, which fails (and is
\* logged) when a declared output or generate is not on disk as declared
PersistOrLog(c) ==
  IF CanPersist([current |-> c, saved |-> NilContent], files)
  THEN cacheFile' = MarshalContent(Refreshed([current |-> c, saved |-> NilContent], files))
  ELSE cacheFile' = cacheFile

\* the child exited with an error without the line X: the task fails,
\* publishes nothing and the state file is left as it is
FailsWithoutPersist ==
  ExitErr => (xresult' = "failed" /\ cacheFile' = cacheFile /\ xoutputs' = xoutputs)

\* C19 as stated: when the child exits normally without X, the cache the
\* records were replayed onto has the outputs, generates, opaque list and
\* OutputFiles of the reporter's cache, it is persisted and its OutputFiles
\* are published; when the child exits with an error the task fails and
\* nothing is persisted
C19_ReplayEqualsReporter ==
  [][/\ ExitOk => /\ xresult' = "ok"
                  /\ SameAsReporter(replayed')
                  /\ PersistOrLog(replayed')
                  /\ xoutputs' = replayed'.TaskOutputs
     /\ FailsWithoutPersist]_vars

\* C19: when the child exits normally without X, the OutputFiles of the
\* cache the records were replayed onto are published; if every reported
\* input is still on disk, that cache has the outputs, generates, opaque
\* list and OutputFiles of the reporter's cache and is persisted when its
\* outputs and generates are on disk as declared; if a reported input is
\* gone, the replay stops there and nothing is persisted; when the child
\* exits with an error the task fails and nothing is persisted
C19_ReplayEqualsReporterIfInputsExist ==
  [][/\ ExitOk => /\ xresult' = "ok"
                  /\ xoutputs' = replayed'.TaskOutputs
                  /\ IF ReportedInputsExist
                     THEN /\ SameAsReporter(replayed')
                          /\ DOMAIN replayed'.Inputs = DOMAIN fcache.current.Inputs
                          /\ PersistOrLog(replayed')
                     ELSE cacheFile' = cacheFile
     /\ FailsWithoutPersist]_vars

\* an external tool reported a source, an output and an opaque string and
\* exited normally; the replayed cache was persisted and published
C19_Witness ==
  /\ xkind = "ext"
  /\ xresult = "ok"
  /\ replayed # NilContent
  /\ Len(reporter) = 4
  /\ DOMAIN replayed.Inputs # {}
  /\ Len(replayed.Opaque) = 2
  /\ replayed.TaskOutputs.Primary # NoPath
  /\ xoutputs = replayed.TaskOutputs
  /\ cacheFile # NilContent
  /\ loadStateFrom(cacheFile).TaskOutputs = xoutputs

(***************************************************************************)
(* Properties of tool registration.                                        *)
(***************************************************************************)

\* the task t asked for a registration and came back without an error
RegistrationSucceeded(t) ==
  rpc[t] = "done" /\ regMeta[t] # None /\ ~Failed(rerr[t])

\* the task t went through the locked part of registerToolIfRequested
TriedToRegister(t) ==
  rpc[t] = "done" /\ regMeta[t] # None /\ ~Failed(rout[t]) /\ rerr[t] # "no outputs"

\* C20: in one run, for every tool name at most one task's registration
\* succeeds, and it is the task stored under the name; of the tasks that
\* tried to register one name exactly one is stored and every other one
\* failed although its executor did not; and no project is loaded in which
\* a target registers the name of a built-in tool
C20_RegistrationUnique ==
  /\ \A name \in RegNames \ {None} :
       LET won == {t \in Targets : regMeta[t] = name /\ RegistrationSucceeded(t)}
           tried == {t \in Targets : regMeta[t] = name /\ TriedToRegister(t)}
       IN /\ Cardinality(won) <= 1
          /\ \A t \in won : name \in DOMAIN regTools /\ regTools[name] = t
          /\ tried # {} =>
               /\ name \in DOMAIN regTools
               /\ regTools[name] \in tried
               /\ won = {regTools[name]}
               /\ \A t \in tried \ won :
                    Failed(rerr[t]) /\ ~Failed(rout[t])
  /\ loadState = "loaded" =>
       \A t \in Targets : regMeta[t] \notin BuiltinNames /\ regMeta[t] # ""
  /\ (\E t \in Targets : regMeta[t] \in BuiltinNames) => loadState = "rejected"
  /\ loadState # "loaded" => regTools = NoTools

\* two tasks tried to register the name gen: one tool is stored, the other
\* task failed with a successful executor
C20_Witness ==
  \E t, u \in Targets :
    /\ t # u
    /\ regMeta[t] = "gen" /\ regMeta[u] = "gen"
    /\ TriedToRegister(t) /\ TriedToRegister(u)
    /\ regTools["gen"] = t
    /\ rerr[u] = "already registered"
    /\ rout[u] = "nil"

(***************************************************************************)
(* The persisted TaskResult after a task run.                              *)
(***************************************************************************)
\* the worker of task t went through executeTask and writeTaskResult in
\* the current build
RanInBuild(t) == t \in tasks /\ State[t] = "Completed"

\* Skipped and the two time stamps of the result file are those of the run
ResultFlagsOfRun(t) ==
  /\ resultFile[t].Skipped = (Err[t] = "skipped")
  /\ resultFile[t].StartTime = StartTime[t]
  /\ resultFile[t].EndTime = EndTime[t]

\* what does hold of the flags: they are those of the run
ResultFlagsDescribeRun ==
  \A t \in Targets : RanInBuild(t) => ResultFlagsOfRun(t)

\* what does hold of the error message: a failed run persists one
FailedRunsPersistMessage ==
  \A t \in Targets :
    RanInBuild(t) /\ Failed(Err[t]) => resultFile[t].Err # None

\* C21: after a task run the persisted TaskResult describes that run and
\* only that run: Skipped is true iff the executor returned the skip
\* sentinel, the error message is present iff the run failed, and the
\* start and end time are those of the run.
C21_ResultDescribesLastRun ==
  \A t \in Targets :
    RanInBuild(t) =>
      /\ ResultFlagsOfRun(t)
      /\ (resultFile[t].Err # None) <=> Failed(Err[t])

(***************************************************************************)
(* Properties of Repo.ResolveTargets.  The meaning of a glob is stated     *)
(* here from the grammar of patterns, by backtracking over its terms, not  *)
(* by the chunk algorithm of Match.                                        *)
(***************************************************************************)
BadClass == [ok |-> FALSE, set |-> {}, rest |-> <<>>]

RECURSIVE ClassBody(_, _)
\* the characters of a class up to its closing bracket
ClassBody(p, set) ==
  IF p = <<>> THEN BadClass
  ELSE IF Head(p) = "]"
  THEN IF set = {} THEN BadClass ELSE [ok |-> TRUE, set |-> set, rest |-> Tail(p)]
  ELSE IF Head(p) = "\\"
  THEN IF Len(p) < 2 THEN BadClass
       ELSE ClassBody(SubSeq(p, 3, Len(p)), set \cup {p[2]})
  ELSE ClassBody(Tail(p), set \cup {Head(p)})

RECURSIVE Terms(_)
\* the terms of a pattern: star, any character, or a set of characters
Terms(p) ==
  IF p = <<>> THEN [ok |-> TRUE, terms |-> <<>>]
  ELSE LET c == ClassBody(Tail(p), {})
           one == IF Head(p) = "*" THEN [ok |-> TRUE, kind |-> "star", set |-> {}, rest |-> Tail(p)]
                  ELSE IF Head(p) = "?" THEN [ok |-> TRUE, kind |-> "any", set |-> {}, rest |-> Tail(p)]
                  ELSE IF Head(p) = "[" THEN [ok |-> c.ok, kind |-> "set", set |-> c.set, rest |-> c.rest]
                  ELSE IF Head(p) = "\\"
                  THEN IF Len(p) < 2 THEN [ok |-> FALSE, kind |-> "set", set |-> {}, rest |-> <<>>]
                       ELSE [ok |-> TRUE, kind |-> "set", set |-> {p[2]}, rest |-> SubSeq(p, 3, Len(p))]
                  ELSE [ok |-> TRUE, kind |-> "set", set |-> {Head(p)}, rest |-> Tail(p)]
           more == Terms(one.rest)
       IN IF one.ok /\ more.ok
          THEN [ok |-> TRUE, terms |-> <<[kind |-> one.kind, set |-> one.set]>> \o more.terms]
          ELSE [ok |-> FALSE, terms |-> <<>>]

\* the pattern follows the grammar
WellFormed(p) == Terms(p).ok

RECURSIVE Accepts(_, _)
\* the name is made of one piece per term
Accepts(terms, name) ==
  IF terms = <<>> THEN name = <<>>
  ELSE IF Head(terms).kind = "star"
  THEN \E k \in 0..Len(name) : Accepts(Tail(terms), SubSeq(name, k + 1, Len(name)))
  ELSE /\ name # <<>>
       /\ Head(terms).kind = "any" \/ Head(name) \in Head(terms).set
       /\ Accepts(Tail(terms), Tail(name))

\* name matches the glob p
Glob(p, name) == WellFormed(p) /\ Accepts(Terms(p).terms, name)

\* p has a meta-character or an escape
HasMeta(p) == \E i \in 1..Len(p) : p[i] \in {"*", "?", "[", "\\"}

\* the targets of the repository of the call
AllTargets ==
  UNION {{Target(p, n) : n \in resolve.projects[p]} : p \in DOMAIN resolve.projects}

\* the call was made with a pattern P:T
ColonCall == resolve.called /\ Len(Split(resolve.pattern)) = 2

\* the call was made with a bare pattern T
BareCall == resolve.called /\ Len(Split(resolve.pattern)) = 1

\* the result holds exactly the targets of S, each once, and no error
ReturnsExactly(S) ==
  /\ resolve.result.err = "nil"
  /\ Range(resolve.result.targets) = S
  /\ Len(resolve.result.targets) = Cardinality(S)

MalformedIsBadPattern ==
  ColonCall =>
    LET P == TrimSpace(Split(resolve.pattern)[1])
        T == TrimSpace(Split(resolve.pattern)[2])
    IN /\ P # <<>> /\ ~WellFormed(P) => resolve.result.err = "ErrBadPattern"
       /\ T # <<>> /\ ~WellFormed(T) /\ resolve.result.err = "nil" =>
            resolve.result.targets = <<>>

\* the targets named exactly T
Named(T) == {t \in AllTargets : t.LocalName = T}

\* the first half of C23, which holds: a bare literal T that names targets
\* of more than one project returns all of them with ErrAmbiguousMatch
LiteralInSeveralProjectsIsAmbiguous ==
  BareCall =>
    LET T == resolve.pattern
    IN ~HasMeta(T) /\ Cardinality(Named(T)) > 1 =>
         /\ resolve.result.err = "ErrAmbiguousMatch"
         /\ Range(resolve.result.targets) = Named(T)
         /\ Len(resolve.result.targets) = Cardinality(Named(T))

\* C23: for a bare pattern T, a literal T that names targets of more than
\* one project returns all of them with ErrAmbiguousMatch; a T that is a
\* glob (it has a meta-character or an escape) returns all matches across
\* the projects with no error, also when the name of every matched target
\* is textually equal to the pattern.  The glob is taken to be well-formed
\* here.
C23_BareGlobNeverAmbiguous ==
  /\ LiteralInSeveralProjectsIsAmbiguous
  /\ BareCall =>
       LET T == resolve.pattern
       IN HasMeta(T) /\ WellFormed(T) /\ T = TrimSpace(T) =>
            ReturnsExactly({t \in AllTargets : Glob(T, t.LocalName)})

(***************************************************************************)
(* The life cycle of a task during one run.                                *)
(***************************************************************************)
\* every dependency of t is completed and did not fail, in the state the
\* step leads to
DependenciesSucceeded(t) ==
  \A d \in DepOnOf(deps', tasks', t) :
    State'[d] = "Completed" /\ ~Failed(Err'[d])

\* the run is being cancelled or shut down: the caller's context is done
\* or the coordinator has left its loop
ShuttingDown == ctxDone \/ pc \in {"stop", "join", "done"}

\* a change of Task.State the life cycle allows
AllowedTransition(t) ==
  \/ State[t] = "NotReady" /\ State'[t] = "Ready" /\ DependenciesSucceeded(t)
  \/ State[t] = "Ready" /\ State'[t] = "Queued"
  \/ State[t] = "Queued" /\ State'[t] = "Running"
  \/ State[t] = "Running" /\ State'[t] = "Completed"
  \/ State[t] = "Queued" /\ State'[t] = "Ready" /\ ShuttingDown

\* C24: during a run the state of every task changes only along
\* NotReady -> Ready -> Queued -> Running -> Completed, plus
\* Queued -> Ready when a queued task is returned at cancellation or
\* shutdown; a task never leaves Completed, never skips Queued or Running,
\* and NotReady -> Ready happens only when all its dependencies completed
\* without failure.
C24_TaskStateLifeCycle ==
  [][\A t \in Targets : State'[t] # State[t] => AllowedTransition(t)]_vars

\* the coordinator is about to drain the request channel: a task went from
\* Ready through Queued and Running to Completed, and another one, still
\* Queued on the request channel, is returned to Ready by the next step
C24_Witness ==
  /\ pc = "join"
  /\ \A w \in Workers : wpc[w] = "exited"
  /\ \E t \in tasks : State[t] = "Completed" /\ t \in Range(CompleteList)
  /\ \E t \in Range(requestCh) : State[t] = "Queued"

(***************************************************************************)
(* Workers after cancellation.                                             *)
(***************************************************************************)
\* workerCtx is done: it is a child of the caller's context, and run
\* cancels it when it leaves its loop
WorkerCtxCancelled == ctxDone \/ workerCtxDone

\* some worker takes a task from the request channel in this step
TakesTask == \E t \in Targets : State[t] = "Queued" /\ State'[t] = "Running"

\* C25: once the worker context is cancelled no worker takes a further
\* task from the request channel: no task moves from Queued to Running
\* after cancellation, the tasks on the request channel are left for the
\* drain of the coordinator.
C25_NoTaskTakenAfterCancel ==
  [][WorkerCtxCancelled => ~TakesTask]_vars

(***************************************************************************)
(* The graph when Dispatcher.Run has returned.                             *)
(***************************************************************************)
\* s holds every element once
NoDuplicates(s) == \A i, j \in 1..Len(s) : s[i] = s[j] => i = j

\* the workers that posted a result: the tasks whose worker wrote the end
\* stamp of this run
Posted == {t \in tasks : EndTime[t] # 0}

\* C26: when Dispatcher.Run returns, for any reason, no task is Queued or
\* Running: every task that was queued but not picked up is back on the
\* ready list in state Ready, every result a worker posted has been
\* processed into the complete list, and runningCount is 0.
C26_NothingInFlightAtReturn ==
  pc = "done" =>
    /\ \A t \in tasks : State[t] \in {"NotReady", "Ready", "Completed"}
    /\ runningCount = 0
    /\ requestCh = <<>> /\ resultCh = <<>>
    /\ NoDuplicates(ReadyList) /\ NoDuplicates(CompleteList)
    /\ Range(ReadyList) = {t \in tasks : State[t] = "Ready"}
    /\ Range(CompleteList) = {t \in tasks : State[t] = "Completed"}
    /\ Posted = Range(CompleteList)
    /\ \A t \in Posted : Delivered("TaskComplete", t)

\* a cancelled run returned with results processed and with tasks back
\* on the ready list
C26_Witness ==
  /\ pc = "done"
  /\ err = "canceled"
  /\ ReadyList # <<>>
  /\ CompleteList # <<>>

(***************************************************************************)
(* Which goroutine writes the graph.                                       *)
(***************************************************************************)
\* a step of a worker goroutine: runWorker from the receive to the send of
\* the result
WorkerStep ==
  \E w \in Workers :
    \/ WorkerReceive(w)
    \/ WorkerSendStart(w)
    \/ WorkerExecute(w)
    \/ WorkerExit(w)
    \/ WorkerPanic(w)

\* what does hold: the lists, DepDone and runningCount are written by the
\* coordinator only
ListsWrittenByCoordinator ==
  [][WorkerStep => UNCHANGED <<ReadyList, CompleteList, DepDone, runningCount>>]_vars

\* the handler has been given TaskStart of a task whose worker has not
\* finished it: the handler and the coordinator hold the task while the
\* worker is about to write Err, EndTime, Outputs and State
HandlerHoldsRunningTask ==
  \E w \in Workers :
    /\ wpc[w] = "running"
    /\ \E i \in 1..Len(handled) : IsEvent(handled, i, "TaskStart", wtask[w])

\* C27: the ready list, the complete list and the state field of every
\* task are written only by the coordinator goroutine; workers never
\* write a task's state and reach the coordinator only through the
\* request, result and event channels.
C27_OnlyCoordinatorWritesState ==
  [][WorkerStep => UNCHANGED <<State, ReadyList, CompleteList>>]_vars

(***************************************************************************)
(* Properties of BuildTaskGraph.  What a name denotes is stated here by    *)
(* building the names of a target, not by splitting the name.              *)
(***************************************************************************)
\* the name, read in a dependency list of a target of project from,
\* denotes target t: it is the global name of t, or t is in that project
\* and the name is its local name, alone or after an empty project
Denotes(name, from, t) ==
  \/ name = GlobalName(t)
  \/ t.Project = from /\ (name = t.LocalName \/ name = <<":">> \o t.LocalName)

\* the defined targets the dependency list of t names
DepsOf(t) ==
  {d \in DefinedTargets(graph.projects) :
     \E name \in graph.meta[t] : Denotes(name, t.Project, d)}

\* the defined targets the command line names
RequiredOf ==
  {t \in DefinedTargets(graph.projects) :
     \E i \in 1..Len(graph.required) : graph.required[i] = GlobalName(t)}

RECURSIVE ReachableFrom(_)
\* S and everything its members depend on, directly or not
ReachableFrom(S) ==
  LET more == S \cup UNION {DepsOf(t) : t \in S}
  IN IF more = S THEN S ELSE ReachableFrom(more)

\* every required name and every dependency name of a reachable target
\* denotes a defined target
AllKnown ==
  /\ \A i \in 1..Len(graph.required) :
       \E t \in DefinedTargets(graph.projects) : graph.required[i] = GlobalName(t)
  /\ \A t \in ReachableFrom(RequiredOf) : \A name \in graph.meta[t] :
       \E d \in DefinedTargets(graph.projects) : Denotes(name, t.Project, d)

\* the tasks of the graph that was built
BuiltTasks == graph.result.g.Tasks

\* C28: BuildTaskGraph produces a graph whose task set is exactly the
\* required targets plus all targets reachable from them through the
\* dependency lists (bare names qualified with the project of the
\* depending task), with one task per target, and whose adjacency sets
\* are mutual inverses: D is in T.DepOn iff T is in D.DepBy; an unknown
\* required target or dependency makes it fail and return no graph.
C28_GraphIsReachableClosure ==
  graph.called =>
    IF AllKnown
    THEN /\ graph.result.err = "nil"
         /\ {BuiltTasks[n].Target : n \in DOMAIN BuiltTasks}
              = ReachableFrom(RequiredOf)
         /\ \A n \in DOMAIN BuiltTasks : n = GlobalName(BuiltTasks[n].Target)
         /\ \A n \in DOMAIN BuiltTasks :
              /\ BuiltTasks[n].DepOn \subseteq DOMAIN BuiltTasks
              /\ BuiltTasks[n].DepBy \subseteq DOMAIN BuiltTasks
              /\ BuiltTasks[n].DepOn
                   = {GlobalName(d) : d \in DepsOf(BuiltTasks[n].Target)}
         /\ \A t, d \in DOMAIN BuiltTasks :
              d \in BuiltTasks[t].DepOn <=> t \in BuiltTasks[d].DepBy
    ELSE /\ graph.result.err # "nil"
         /\ graph.result.g = EmptyGraph

\* a graph was built in which p:x, the only required target, depends on
\* q:x of the other project, and q:x on its own project's y through a
\* bare name: three tasks, linked both ways
C28_Witness ==
  /\ graph.called
  /\ graph.result.err = "nil"
  /\ graph.required = <<<<"p", ":", "x">>>>
  /\ <<"q", ":", "x">> \in graph.meta[Target(<<"p">>, <<"x">>)]
  /\ <<"y">> \in graph.meta[Target(<<"q">>, <<"x">>)]
  /\ <<"q", ":", "y">> \in DOMAIN BuiltTasks
  /\ <<"q", ":", "x">> \in BuiltTasks[<<"q", ":", "y">>].DepBy

(***************************************************************************)
(* Properties of the saved state around an execution that is not skipped.  *)
(***************************************************************************)
\* the step in which the command of a built-in tool fails: the executor
\* had decided not to skip and had not yet persisted
CommandFails == xpc = "run" /\ xpc' = "returned" /\ xresult' = "failed"

\* C29: a conforming executor deletes the saved state file before any
\* non-skipped execution, so if that execution fails or is interrupted
\* before Persist no state file exists afterwards (and the next run
\* cannot verify); this holds for every built-in executor.
C29_FailedExecutionLeavesNoState ==
  [][CommandFails => cacheFile' = NilContent]_vars

\* from the decision not to skip until Persist there is no state file
NoStateWhileWorking == xpc \in {"run", "persist"} => cacheFile = NilContent

\* an executor that fails while it declares its sources returns before
\* ClearSaved and leaves the state file of the run before
FailedBeforeClear ==
  xpc = "returned" /\ xresult = "failed" /\ cacheFile # NilContent

\* the command of cc failed and the state file it left still verifies
\* against the declarations of the failed run
FailedButVerifiable ==
  /\ xkind = "cc" /\ xpc = "returned" /\ xresult = "failed"
  /\ fcache.current.Outputs # EmptyEntries
  /\ FilesCacheVerify(fcache, files, cacheFile).ok

(***************************************************************************)
(* Properties of FilesCache.Persist as the built-in executors call it.     *)
(***************************************************************************)
\* what the executor declared as outputs and as generated sources
Declared ==
  [fn \in DOMAIN fcache.current.Outputs \cup DOMAIN fcache.current.Generates |->
     IF fn \in DOMAIN fcache.current.Outputs
     THEN fcache.current.Outputs[fn].Dir
     ELSE fcache.current.Generates[fn].Dir]

\* every declared output and generated source is on disk, a directory
\* where a directory was declared and a file where a file was
DeclaredOnDisk ==
  \A fn \in DOMAIN Declared : files[fn].Exists /\ files[fn].Dir = Declared[fn]

\* the step in which a built-in executor calls PersistCacheOrLog and returns
PersistStep == xpc = "persist" /\ xpc' = "returned"

\* the state file written in this step holds the declarations of the run
\* with the modification times the disk has now
WritesState ==
  LET written == loadStateFrom(cacheFile')
  IN /\ cacheFile' # NilContent
     /\ DOMAIN written.Outputs = DOMAIN fcache.current.Outputs
     /\ DOMAIN written.Generates = DOMAIN fcache.current.Generates
     /\ \A fn \in DOMAIN written.Outputs :
          written.Outputs[fn] = fileEntry(Declared[fn], files[fn].MTime)
     /\ \A fn \in DOMAIN written.Generates :
          written.Generates[fn] = fileEntry(Declared[fn], files[fn].MTime)
     /\ written.Inputs = fcache.current.Inputs
     /\ written.Opaque = fcache.current.Opaque
     /\ written.TaskOutputs = fcache.current.TaskOutputs

\* C30: FilesCache.Persist writes the state file only if every declared
\* output and generate exists on disk with the declared is-directory flag;
\* otherwise it returns an error and leaves the state file untouched, the
\* executor only logs the error and still returns success, and the next
\* run of the task finds no verifiable state: it does not skip.
C30_PersistNeedsDeclaredOnDisk ==
  [][/\ PersistStep =>
          /\ xresult' = "ok"
          /\ IF DeclaredOnDisk
             THEN persistErr' = "nil" /\ WritesState
             ELSE persistErr' = "error" /\ cacheFile' = cacheFile
     /\ persistErr = "error" =>
          /\ xresult' # "skipped"
          /\ verified' # "true"]_vars

\* the Persist of the first run failed for a missing or mistyped output,
\* the run succeeded all the same, and the second run, skippable, found
\* nothing to verify and is at work again
C30_Witness ==
  /\ persistErr = "error"
  /\ execs = 2
  /\ xskippable
  /\ verified = "false"
  /\ xpc = "run"
  /\ DOMAIN fcache.current.Outputs # {}

(***************************************************************************)
(* Tool lookup: the tasks of one Dispatcher.Run above a task that          *)
(* registers the external tool "gen".  A task starts when its              *)
(* dependencies are complete and none of them failed; executeTask looks    *)
(* the tool of the target up, runs it and registers what the target asks   *)
(* to register.                                                            *)
(***************************************************************************)
\* the rule of an "ext" target names the tool "gen"
ToolNameOf(t) == IF tool[t] = "ext" THEN "gen" ELSE tool[t]

\* a registers "gen" and has a rule or none; c uses "gen" and depends on a
\* directly, through b, or not at all
LookupRepos ==
  { Repo([NoDeps EXCEPT !["b"] = db, !["c"] = dc],
         [a |-> ka, b |-> kb, c |-> "ext"], NoAlways) :
      ka \in {"builtin", "dummy"}, kb \in {"builtin", "dummy"},
      db \in {{}, {"a"}}, dc \in {{"a"}, {"b"}, {}} }

\* createTool: the read of Dispatcher.registeredTools under RLock
createTool(t) == ToolNameOf(t) \in DOMAIN regTools

\* the dispatcher hands t to a worker once its dependencies completed
\* without failure
DepsSucceeded(t) == \A d \in deps[t] : rpc[d] = "done" /\ ~Failed(rerr[d])

\* the first part of executeTask for task t: Target.Tool(), createTool for
\* a tool that is not built in, and the return of a dummy target before
\* anything is registered
LookupTool(t, skippable) ==
  /\ loadState = "loaded"
  /\ rpc[t] = "idle"
  /\ DepsSucceeded(t)
  /\ Cardinality({u \in Targets : rpc[u] \notin {"idle", "done"}}) < NumWorkers
  /\ IF tool[t] = "ext"
     THEN /\ toolsLock = None
          /\ IF createTool(t)
             THEN rpc' = [rpc EXCEPT ![t] = "executing"] /\ rerr' = rerr
             ELSE /\ rpc' = [rpc EXCEPT ![t] = "done"]
                  /\ rerr' = [rerr EXCEPT ![t] = "unknown tool"]
     ELSE IF tool[t] = "dummy"
     THEN /\ rpc' = [rpc EXCEPT ![t] = "done"]
          /\ rerr' = [rerr EXCEPT ![t] = IF skippable THEN "skipped" ELSE "nil"]
     ELSE rpc' = [rpc EXCEPT ![t] = "executing"] /\ rerr' = rerr
  /\ UNCHANGED <<notRegVars, callVars, regMeta, loadState, regTools, toolsLock,
                 rout>>

\* tool.Execute returns ret; a failure is returned at once, else
\* registerToolIfRequested: nil when the target registers nothing, an
\* error when the task has no output to point the tool at, and else the
\* worker goes for the lock
RunTool(t, ret, hasOutput) ==
  /\ rpc[t] = "executing"
  /\ rout' = [rout EXCEPT ![t] = ret]
  /\ IF Failed(ret) \/ regMeta[t] = None
     THEN /\ rerr' = [rerr EXCEPT ![t] = ret]
          /\ rpc' = [rpc EXCEPT ![t] = "done"]
     ELSE IF ~hasOutput
     THEN /\ rerr' = [rerr EXCEPT ![t] = "no outputs"]
          /\ rpc' = [rpc EXCEPT ![t] = "done"]
     ELSE /\ rerr' = rerr
          /\ rpc' = [rpc EXCEPT ![t] = "registering"]
  /\ UNCHANGED <<notRegVars, callVars, regMeta, loadState, regTools, toolsLock>>

\* the project file gives register-tool "gen" to a, and maybe to b
LookupMetas ==
  {m \in [Targets -> {None, "gen"}] : m["a"] = "gen" /\ m["c"] = None}

InitLookup ==
  /\ \E r \in LookupRepos :
       InitWith(r, CHOOSE d \in Disks(r.tool) : TRUE)
  /\ plan = NoPlan
  /\ resolve = NoResolve
  /\ graph = NoGraph
  /\ persistErr = "none"
  /\ InitTool

NextLookup ==
  \/ \E meta \in LookupMetas : LoadProject(meta)
  \/ \E t \in Targets, skippable \in BOOLEAN : LookupTool(t, skippable)
  \/ \E t \in Targets, ret \in {"nil", "skipped", "failed"}, hasOutput \in BOOLEAN :
       RunTool(t, ret, hasOutput)
  \/ \E t \in Targets : LockTools(t)
  \/ \E t \in Targets : RegisterTool(t)

SpecLookup == InitLookup /\ [][NextLookup]_vars

\* the tool of t is registered by a task t depends on, directly or not,
\* and that task completed without failure
RegisteredBelow(t) ==
  \E r \in TransDeps(deps, t) :
    regMeta[r] = ToolNameOf(t) /\ rpc[r] = "done" /\ ~Failed(rerr[r])

\* t starts in this step: executeTask looks its tool up
Starts(t) == rpc[t] = "idle" /\ rpc'[t] # "idle"

\* C31: if a task T uses an external tool registered by target R and R is
\* a direct or transitive dependency of T that did not fail, then T's tool
\* lookup succeeds when T starts, whether R executed or was skipped.
C31_LookupSucceedsAboveRegistrar ==
  [][\A t \in Targets :
       (tool[t] = "ext" /\ Starts(t) /\ RegisteredBelow(t))
         => rerr'[t] # "unknown tool"]_vars

\* the same for a registering task that has a rule
RegisteredBelowByRule(t) ==
  \E r \in TransDeps(deps, t) :
    /\ regMeta[r] = ToolNameOf(t) /\ rpc[r] = "done" /\ ~Failed(rerr[r])
    /\ tool[r] # "dummy"

LookupSucceedsAboveRuleRegistrar ==
  [][\A t \in Targets :
       (tool[t] = "ext" /\ Starts(t) /\ RegisteredBelowByRule(t))
         => rerr'[t] # "unknown tool"]_vars

\* the registering task was skipped and the task above it found the tool
SkippedRegistrarServes ==
  /\ rout["a"] = "skipped" /\ rerr["a"] = "skipped"
  /\ "a" \in TransDeps(deps, "c") /\ "a" \notin deps["c"]
  /\ rpc["c"] = "executing"

\* the registering task is no dependency: the lookup failed, or succeeded
UnrelatedLookupFails ==
  "a" \notin TransDeps(deps, "c") /\ rerr["c"] = "unknown tool"
UnrelatedLookupSucceeds ==
  "a" \notin TransDeps(deps, "c") /\ rpc["c"] = "executing"

(***************************************************************************)
(* The template helpers depout and depsrc, called while a task executes.   *)
(* The targets of the dispatcher specifications live in one project, "p".  *)
(***************************************************************************)
\* xctx.Project().Name
ProjectName == <<"p">>

\* Task.Graph.Tasks[name]: the task of that global name, or nil
TaskNamed(name) ==
  IF \E t \in tasks : GlobalName(Target(ProjectName, <<t>>)) = name
  THEN CHOOSE t \in tasks : GlobalName(Target(ProjectName, <<t>>)) = name
  ELSE None

\* a findDep that accepts every task of the graph
findDepInGraph(t, depName) ==
  LET tn == SplitTargetName(depName)
      qn == IF tn.Project = <<>> THEN Target(ProjectName, tn.LocalName) ELSE tn
      task == TaskNamed(GlobalName(qn))
  IN [ok |-> task # None, task |-> task]

\* ToolParamTemplate.findDep called from the executor of task t
findDep(t, depName) ==
  LET tn == SplitTargetName(depName)
      qn == IF tn.Project = <<>> THEN Target(ProjectName, tn.LocalName) ELSE tn
      task == TaskNamed(GlobalName(qn))
  IN [ok |-> task # None /\ task \in DepDone[t], task |-> task]

\* ToolParamTemplate.fnDepSrc returns no error
fnDepSrc(t, depName) == findDep(t, depName).ok

\* ToolParamTemplate.fnDepOut returns no error: the dependency published
\* outputs and the primary one is not empty; the executors of the
\* dispatcher specifications publish no extra output
fnDepOut(t, depName, outKey) ==
  LET r == findDep(t, depName)
  IN /\ r.ok
     /\ Outputs[r.task] # NilOutputs
     /\ outKey = ""
     /\ Outputs[r.task].Primary # None

\* the names a template can give: every target and the undefined d, bare,
\* with an empty project, in project p and in another project
TemplateNames ==
  UNION {{<<x>>, <<":", x>>, <<"p", ":", x>>, <<"q", ":", x>>} :
           x \in Targets \cup {"d"}}
OutKeys == {"", "k"}

\* name is one of the spellings of target d as seen from project p
Spells(name, d) ==
  name \in {<<d>>, <<":", d>>, <<"p", ":", d>>}

\* the tasks some worker executes
Executing == {wtask[w] : w \in {v \in Workers : wpc[v] = "running"}}

\* C32: while a task executes, its completed-dependency set equals its set
\* of direct dependencies, each of them Completed and not failed; so
\* depsrc and depout succeed exactly for the names of direct dependencies
\* (depout only if the requested output is there) and fail for every other
\* name, transitive dependencies and targets outside the graph included.
C32_DepDoneIsDirectDeps ==
  \A t \in Executing :
    /\ DepDone[t] = deps[t]
    /\ \A d \in deps[t] : State[d] = "Completed" /\ ~Failed(Err[d])
    /\ \A name \in TemplateNames :
         /\ fnDepSrc(t, name) <=> \E d \in deps[t] : Spells(name, d)
         /\ \A key \in OutKeys :
              fnDepOut(t, name, key) <=>
                \E d \in deps[t] :
                  /\ Spells(name, d)
                  /\ key = "" /\ Outputs[d].Primary # None

\* c executes above the dummy b, which is above a: depsrc finds b and not
\* a, and depout finds nothing in b, which published no output
C32_Witness ==
  /\ "c" \in Executing
  /\ deps["c"] = {"b"} /\ deps["b"] = {"a"}
  /\ fnDepSrc("c", <<"b">>) /\ ~fnDepSrc("c", <<"p", ":", "a">>)
  /\ ~fnDepOut("c", <<"b">>, "")

\* b executes and depout gives it the primary output of a
DepOutServes ==
  "b" \in Executing /\ fnDepOut("b", <<":", "a">>, "")

(***************************************************************************)
(* Properties of targets without rule.                                     *)
(***************************************************************************)
\* the tasks of this build a worker has finished
Finished == {t \in tasks : State[t] = "Completed"}

\* the dummy tasks of this build a worker has finished
FinishedDummies == {t \in Finished : tool[t] = "dummy"}

\* C33: a dummy task never fails and performs no work: it completes as
\* Skipped iff its skippability gate is true, and otherwise completes as a
\* success that records new success timestamps, so that a re-executed
\* dependency below a dummy aggregator forces the tasks above it to
\* re-execute.
C33_DummySkipsIffGate ==
  /\ \A t \in FinishedDummies :
       /\ ~Failed(Err[t])
       /\ Skipped(Err[t]) <=> Skippable[t] = "true"
       /\ Outputs[t] = NilOutputs
       /\ stateFile[t] = NoState
       /\ Skipped(Err[t]) => resultFile[t].Skipped
       /\ ~Skipped(Err[t]) =>
            /\ ~resultFile[t].Skipped
            /\ resultFile[t].SuccessBuildStartTime = StartTime[t]
            /\ resultFile[t].SuccessBuildEndTime = EndTime[t]
  /\ \A u \in Finished : \A t \in deps[u] \cap FinishedDummies :
       (\E d \in deps[t] : Err[d] = "nil")
         => /\ Err[t] = "nil"
            /\ Skippable[u] = "false"
            /\ ~Skipped(Err[u])

\* everything was built before; a is executed again, the dummy b above it
\* succeeds with new timestamps and c above b is executed again
C33_Witness ==
  /\ deps["c"] = {"b"} /\ deps["b"] = {"a"} /\ tool["b"] = "dummy"
  /\ {"a", "b", "c"} \subseteq Finished
  /\ Err["a"] = "nil" /\ Err["b"] = "nil" /\ Err["c"] = "nil"
  /\ Skippable["a"] = "true"
  /\ Skippable["b"] = "false" /\ Skippable["c"] = "false"
  /\ resultFile["b"].SuccessBuildStartTime = StartTime["b"]
  /\ StartTime["b"] > 1

\* a dummy task whose gate is true completes as skipped
DummySkipped ==
  \E t \in FinishedDummies : Skipped(Err[t]) /\ Skippable[t] = "true"

(***************************************************************************)
(* Order of the events the handler receives.                               *)
(***************************************************************************)
RECURSIVE CompletedInOrder(_)
\* the tasks of the TaskComplete events of a sequence, in its order
CompletedInOrder(evs) ==
  IF evs = <<>> THEN <<>>
  ELSE IF Head(evs).type = "TaskComplete"
       THEN <<Head(evs).task>> \o CompletedInOrder(Tail(evs))
       ELSE CompletedInOrder(Tail(evs))

\* TaskComplete events are delivered in the order in which the coordinator
\* processes the completions
CompleteEventsInOrder == CompletedInOrder(handled) = CompleteList

\* C34: for every task, the event handler receives TaskStart(T) before
\* TaskComplete(T) in every interleaving, and TaskComplete events are
\* delivered in the order in which the coordinator processes the
\* completions.
C34_StartBeforeComplete ==
  /\ \A i \in 1..Len(handled) :
       handled[i].type = "TaskComplete" =>
         \E j \in 1..(i - 1) : IsEvent(handled, j, "TaskStart", handled[i].task)
  /\ CompleteEventsInOrder

(***************************************************************************)
(* Where a task of the graph is during a run.                              *)
(***************************************************************************)
\* how many times task t occurs in the list or channel s
Occurs(s, t) == Cardinality({i \in 1..Len(s) : s[i] = t})

\* the workers that took task t off requestCh and have not yet sent it on
\* resultCh
Holders(t) == {w \in Workers : wpc[w] \in {"starting", "running"} /\ wtask[w] = t}

\* the number of places task t is in: waiting for a dependency, the ready
\* list, requestCh, a worker, resultCh, the complete list
PlacesOf(t) ==
  (IF State[t] = "NotReady" THEN 1 ELSE 0)
  + Occurs(ReadyList, t) + Occurs(requestCh, t) + Cardinality(Holders(t))
  + Occurs(resultCh, t) + Occurs(CompleteList, t)

\* how many times a worker took task t for execution: the TaskStart events
\* sent for it and the one a worker is still waiting to send
Executions(t) ==
  Cardinality({i \in 1..Len(Events) : IsEvent(Events, i, "TaskStart", t)})
  + Cardinality({w \in Workers : wpc[w] = "starting" /\ wtask[w] = t})

\* C35: in every state of a run each task of the graph is in exactly one
\* place (not yet released, on the ready list, on the request channel, held
\* by one worker, on the result channel, on the complete list), so it is
\* never twice on the ready list or the complete list, and no task is taken
\* for execution more than once
C35_TaskInExactlyOnePlace ==
  \A t \in tasks :
    /\ PlacesOf(t) = 1
    /\ Executions(t) <= 1

\* a dependent waits for its second dependency while the first one is on
\* the complete list and the second one is held by a worker, or three
\* independent tasks are spread over a channel, a worker and the complete
\* list
C35_Witness ==
  /\ \A t \in tasks : PlacesOf(t) = 1
  /\ \E t1, t2, t3 \in tasks :
       /\ Occurs(CompleteList, t1) = 1
       /\ Holders(t2) # {}
       /\ \/ State[t3] = "NotReady" /\ {t1, t2} \subseteq DepOn(t3)
          \/ Occurs(requestCh, t3) = 1
          \/ Occurs(resultCh, t3) = 1

\* every place is visited: some task is on the ready list while another is
\* on the result channel
TaskOnReadyAndOnResult ==
  \E t1, t2 \in tasks : Occurs(ReadyList, t1) = 1 /\ Occurs(resultCh, t2) = 1

(***************************************************************************)
(* The gate across builds.                                                 *)
(***************************************************************************)
\* the graph of the previous build
PrevTasks == BuildTaskGraph(deps, prev.required)

\* dependency D was executed again with success in the previous build and
\* is skipped in this one: its saved state records the input as it was
\* modified before the previous build, and only a successful execution
\* writes the state
ReexecutedInPrevBuild(D) ==
  /\ build = MaxBuilds
  /\ D \in PrevTasks
  /\ State[D] = "Completed" /\ Skipped(Err[D])
  /\ srcMTime[D] > 0 /\ stateFile[D] # NoState
  /\ stateFile[D].Inputs = srcMTime[D]

\* task T did not succeed in the previous build: it was not in the graph,
\* or its last run was neither a success nor a skip
NoSuccessInPrevBuild(T) ==
  \/ T \notin PrevTasks
  \/ /\ ~resultFile[T].Skipped
     /\ resultFile[T].StartTime # resultFile[T].SuccessBuildStartTime

\* the new success of D is later than the last successful start of T
NewerThan(D, T) ==
  \/ resultFile[D].SuccessBuildStartTime > resultFile[T].SuccessBuildStartTime
  \/ resultFile[D].SuccessBuildEndTime > resultFile[T].SuccessBuildStartTime

\* the step in which executeTask runs for T hands the executor a false
\* flag and T does not complete as skipped
ReexecutesNotSkippable(T) ==
  GateComputed(T) => Skippable'[T] = Flag(FALSE) /\ ~Skipped(Err'[T])

\* C36 as stated: when a dependency D of T was executed again with success
\* in a build in which T was not in the graph or did not succeed, then in
\* the next build with T the task T is not skippable and is executed again,
\* although D is skipped in that build and the cache state of T verifies
C36_DepRebuiltElsewhereForcesTask ==
  [][\A T \in tasks : \A D \in DepOn(T) :
       (ReexecutedInPrevBuild(D) /\ NoSuccessInPrevBuild(T))
       => ReexecutesNotSkippable(T)]_vars

\* C36 as the code has it: the same, provided the new success of D carries
\* a time stamp later than the last successful start of T
C36_NewerDepForcesTask ==
  [][\A T \in tasks : \A D \in DepOn(T) :
       (ReexecutedInPrevBuild(D) /\ NoSuccessInPrevBuild(T) /\ NewerThan(D, T))
       => ReexecutesNotSkippable(T)]_vars

\* a was modified, built alone and executed again at a clock value later
\* than the one of the earlier build of b; in the next build, not forced,
\* a is skipped and b, whose input is unchanged since its state was saved,
\* was handed a false flag and executed again
C36_Witness ==
  \E T \in tasks : \E D \in DepOn(T) :
    /\ ReexecutedInPrevBuild(D) /\ T \notin PrevTasks
    /\ tool[T] \in {"builtin", "ext"} /\ srcMTime[T] = 0
    /\ State[T] = "Completed" /\ Err[T] = "nil"
    /\ Skippable[T] = Flag(FALSE) /\ ~NoSkip[T] /\ ~always[T]
    /\ resultFile[D].SuccessBuildEndTime
         > BuiltResult(tool, T).SuccessBuildStartTime

\* a was modified, built alone and executed again at the clock value of the
\* earlier build; in the next build a and b are both skipped
StaleTaskSkipped ==
  \E T \in tasks : \E D \in DepOn(T) :
    /\ ReexecutedInPrevBuild(D) /\ T \notin PrevTasks
    /\ State[T] = "Completed" /\ Skipped(Err[T])
    /\ Skippable[T] = Flag(TRUE)

(***************************************************************************)
(* The success time stamps of the result file.                             *)
(***************************************************************************)
\* SuccessBuildStartTime and SuccessBuildEndTime of a TaskResult
SuccessStamps(r) == <<r.SuccessBuildStartTime, r.SuccessBuildEndTime>>

\* the step in which the worker of t returns from executeTask, stamps the
\* end and writes the result
CompletesTask(t) == State[t] # "Completed" /\ State'[t] = "Completed"

\* what the step of the worker does to the success time stamps of t
StampsFollowOutcome(t) ==
  IF Err'[t] = "nil"
  THEN SuccessStamps(resultFile'[t]) = <<StartTime'[t], EndTime'[t]>>
  ELSE SuccessStamps(resultFile'[t]) = SuccessStamps(resultFile[t])

\* a dependent that succeeded in this run, not skipped, was started no
\* earlier than any of its dependencies that succeeded in this run ended
SuccessOrdered ==
  \A T \in tasks : \A D \in DepOn(T) :
    (/\ State[T] = "Completed" /\ Err[T] = "nil"
     /\ State[D] = "Completed" /\ Err[D] = "nil")
    => resultFile[D].SuccessBuildEndTime <= resultFile[T].SuccessBuildStartTime

\* C37: a run in which a task completes as skipped or failed leaves the
\* success start and end of its result file as they were; a run in which it
\* completes as a success that was not skipped writes the start and end of
\* this run; no other step of a living process changes them; and the
\* success end of a dependency never exceeds the success start of a
\* dependent that succeeded in the same run
C37_SuccessStampsFollowOutcome ==
  [][/\ \A t \in Targets :
          /\ CompletesTask(t) => StampsFollowOutcome(t)
          /\ (SuccessStamps(resultFile'[t]) # SuccessStamps(resultFile[t])
              /\ ~crashed')
             => CompletesTask(t) /\ Err'[t] = "nil"
     /\ SuccessOrdered']_vars

\* on a disk built earlier the dependency was executed again and its result
\* carries the times of this run, while the dependent failed and keeps the
\* success times of the earlier build although it ran later
C37_Witness ==
  \E T \in tasks : \E D \in DepOn(T) :
    /\ State[D] = "Completed" /\ Err[D] = "nil"
    /\ SuccessStamps(resultFile[D]) = <<StartTime[D], EndTime[D]>>
    /\ EndTime[D] > BuiltResult(tool, D).SuccessBuildEndTime
    /\ State[T] = "Completed" /\ Failed(Err[T])
    /\ SuccessStamps(resultFile[T]) = SuccessStamps(BuiltResult(tool, T))
    /\ StartTime[T] > resultFile[T].SuccessBuildStartTime

\* a skipped task keeps the success times of the earlier build although it
\* ran later
SkipKeepsStamps ==
  \E t \in tasks :
    /\ State[t] = "Completed" /\ Skipped(Err[t])
    /\ SuccessStamps(resultFile[t]) = SuccessStamps(BuiltResult(tool, t))
    /\ StartTime[t] > resultFile[t].SuccessBuildStartTime

\* a dependency and its dependent both succeeded in one run and the
\* dependent started at the clock value at which the dependency ended
BothSucceededInOrder ==
  \E T \in tasks : \E D \in DepOn(T) :
    /\ State[T] = "Completed" /\ Err[T] = "nil"
    /\ State[D] = "Completed" /\ Err[D] = "nil"
    /\ resultFile[D].SuccessBuildEndTime = resultFile[T].SuccessBuildStartTime
    /\ resultFile[D].SuccessBuildStartTime < resultFile[T].SuccessBuildEndTime

\* the process died while a task with success times was executing: its
\* result file, removed before the executor ran, stays missing
CrashLeavesNoResult ==
  \E w \in Workers :
    /\ crashed /\ wtask[w] \in tasks /\ State[wtask[w]] = "Running"
    /\ resultFile[wtask[w]] = ZeroResult
    /\ stateFile[wtask[w]] # NoState

(***************************************************************************)
(* What a Verify that returns true says about the OutputFiles record.      *)
(***************************************************************************)
\* FilesCache.Verify is called in this step and returns true
VerifyReturnsTrue == VerifyCalled /\ verified' = Flag(TRUE)

\* two OutputFiles records name the same primary output and the same path
\* under every extra key
SameOutputFiles(o1, o2) == o1.Primary = o2.Primary /\ o1.Extra = o2.Extra

\* C38: whenever FilesCache.Verify returns true, the saved OutputFiles
\* record equals the one declared in the current run: the same primary
\* output path and the same path for every extra key
C38_VerifiedMeansSameOutputFiles ==
  [][VerifyReturnsTrue
     => SameOutputFiles(fcache'.saved.TaskOutputs, fcache'.current.TaskOutputs)]_vars

\* what the comparisons of Verify do establish: the same set of output
\* paths and the same set of extra keys
VerifiedMeansSameKeys ==
  [][VerifyReturnsTrue
     => /\ DOMAIN fcache'.saved.Outputs = DOMAIN fcache'.current.Outputs
        /\ DOMAIN fcache'.saved.TaskOutputs.Extra
             = DOMAIN fcache'.current.TaskOutputs.Extra]_vars

\* a task was skipped and published a primary output that is not the one
\* its declarations of this run name
SkippedPublishesOtherPrimary ==
  /\ xresult = "skipped" /\ verified = Flag(TRUE)
  /\ xoutputs # NilOutputFiles
  /\ xoutputs.Primary # fcache.current.TaskOutputs.Primary

====
